---------------------------- MODULE Spec2Model ----------------------------
(***************************************************************************)
(* Model of the batch scripts nhl_data_pull.py and juniors_data_pull.py:   *)
(* request_data (the HTTP retry loop), the select-then-write upserts of    *)
(* the teams, roster and year-by-year stats pulls, _team_players_check,    *)
(* _get_player_sequence, and the junior seasons loop with _sequence_check. *)
(*                                                                         *)
(* Database tables are bags of rows: the scripts define no schema, so the  *)
(* model enforces no key or foreign-key constraint; every statement may    *)
(* succeed or fail, as sql_select / sql_insert / sql_update report it.     *)
(***************************************************************************)
EXTENDS Integers, Sequences, FiniteSets, Bags, TLC

VARIABLES
    \* tables of the nhl database
    teams, players, team_players, skater_season_stats, goalie_season_stats,
    \* the running script
    script,         \* which script the behaviour runs: "nhl" or "jr"
    config,         \* the configuration file the runs read
    pc,             \* position of the script ("idle" between runs)
    exit_status,    \* exit status of the last run that ended
    team_list, ti,  \* the list a teams/roster loop walks (id and name of
                    \* each team), and its index
    player_list, pi,\* roster entries or player ids, and the index
    nhl_years, yi,  \* the NHL splits of the fetched player, and the index
    \* the upstream source
    club,           \* the tracked player's current NHL team (0: none)
    splits,         \* the player's year-by-year splits, in payload order
    position,       \* primaryPosition.abbreviation of the player
    \* history
    req,            \* the last request_data call: answers and result
    recon,          \* select-then-write steps of the last handler step
    writes,         \* INSERT / UPDATE statements of the last handler step
    ups,            \* per natural key: the last upsert and its repetitions
    faults,         \* failures the environment may still inject
    runs,           \* runs that may still start
    stints,         \* stints the source may still record
    \* juniors_data_pull
    junior_skater_stats, junior_goalie_stats,   \* tables
    prospect,       \* the pick being processed: nhl_player_id and position
    season_data, si,\* the splits of the prospect's payload, and the index
    seqchk,         \* the last call of _sequence_check
    nhl_players, nhl_draft,     \* tables
    picks, pk,      \* the picks of the configured draft, and the index
    skip_prospect,  \* the flag of the same name
    fi, fj,         \* i and j of the loops that derive an id from earlier picks
    previous_pick,  \* the row of the earlier pick the id is derived from
    lookup,         \* history: the profiles requested for the pick and compared
    served,         \* splits the source may still put into season payloads
    rerun,          \* history: what the runs were given and what the first left
    team_active     \* the active flag the source reports for each team

(***************************************************************************)
(* request_data                                                            *)
(***************************************************************************)

\* range(3): one initial attempt and two retries
MaxTries == 3

\* What the upstream does with one attempt: status 200, another status,
\* requests.exceptions.Timeout, another requests.exceptions.RequestException.
Outcome == {"ok", "bad", "timeout", "error"}

Answers == [1..MaxTries -> Outcome]

\* How a call ends: "json" the parsed body of a 200 answer, "badjson" the
\* parsed body of a non-200 answer, "None" the loop ran out (implicit return),
\* "exit" sys.exit(1), "NameError" an uncaught exception raised inside the
\* handler.  `of` is the attempt whose body is returned (0: none).
Result(kind, of, tries, retryLogs) ==
    [kind |-> kind, of |-> of, tries |-> tries, retryLogs |-> retryLogs]

RECURSIVE nhl_request_loop(_, _, _)
nhl_request_loop(outs, i, logs) ==
    IF i >= MaxTries
    THEN Result("None", 0, i, logs)
    ELSE CASE outs[i + 1] = "ok"      -> Result("json", i + 1, i + 1, logs)
           [] outs[i + 1] = "bad"     -> nhl_request_loop(outs, i + 1, logs)
           [] outs[i + 1] = "timeout" -> nhl_request_loop(outs, i + 1, logs + 1)
           [] outs[i + 1] = "error"   -> Result("exit", 0, i + 1, logs)

\* a variant in which a first answer other than 200 ends the call at once
nhl_request_data_fatal(outs) ==
    IF outs[1] = "bad" THEN Result("None", 0, 1, 0)
                       ELSE nhl_request_loop(outs, 0, 0)

\* a variant that requests once more after the loop ran out
nhl_request_data_again(outs) ==
    LET r == nhl_request_loop(outs, 0, 0)
    IN  IF r.kind = "None" THEN [r EXCEPT !.tries = @ + 1] ELSE r

nhl_request_data(outs) == nhl_request_loop(outs, 0, 0)

RECURSIVE jr_request_loop(_, _, _)
jr_request_loop(outs, i, logs) ==
    IF i >= MaxTries
    THEN Result("None", 0, i, logs)
    ELSE CASE outs[i + 1] = "ok"      -> Result("json", i + 1, i + 1, logs)
           [] outs[i + 1] = "bad"     ->
                IF i = 2 THEN Result("badjson", i + 1, i + 1, logs)
                         ELSE jr_request_loop(outs, i + 1, logs)
           \* the handler formats its message with the unbound name `_`
           [] outs[i + 1] = "timeout" -> Result("NameError", 0, i + 1, logs)
           [] outs[i + 1] = "error"   -> Result("exit", 0, i + 1, logs)

jr_request_data(outs) == jr_request_loop(outs, 0, 0)

NoRequest == [prog |-> "none", outs |-> [k \in 1..MaxTries |-> "ok"],
              res |-> Result("None", 0, 0, 0)]

\* One call of nhl_data_pull.request_data against the answers `outs`.
ReqNhl ==
    \E outs \in Answers :
        req' = [prog |-> "nhl", outs |-> outs, res |-> nhl_request_data(outs)]

\* One call of juniors_data_pull.request_data against the answers `outs`.
ReqJr ==
    \E outs \in Answers :
        req' = [prog |-> "jr", outs |-> outs, res |-> jr_request_data(outs)]

nhlVars == <<teams, players, team_players, skater_season_stats,
             goalie_season_stats, team_list, ti, player_list, pi, nhl_years,
             yi, club, splits, position, recon, ups, stints, script, config,
             team_active>>

draftVars == <<nhl_players, nhl_draft, pk, skip_prospect, fi, fj,
               previous_pick, lookup>>

jrVars == <<junior_skater_stats, junior_goalie_stats, prospect, season_data,
            si, seqchk, script, config, picks, served, draftVars, rerun,
            team_active>>

(***************************************************************************)
(* Bounds of the model                                                     *)
(***************************************************************************)

\* teams in the league payload
NTeams == 3
\* splits the upstream may hold for the tracked player
MaxSplits == 3
\* runs of the script in one behaviour
MaxRuns == 3
\* failed statements and unclean requests in one behaviour
MaxFaults == 2
\* runs and stints in a behaviour that injects failures
MaxFaultRuns == 2
MaxFaultSplits == 2

(***************************************************************************)
(* The upstream source                                                     *)
(***************************************************************************)

TeamIds == 1..NTeams
\* the players the behaviour tracks
Players == DOMAIN club
PositionCodes == {"C", "G"}

NHL == "National Hockey League"
AHL == "American Hockey League"
current_season == "20192020"
previous_season == "20182019"

TeamName(t) == IF t = 0 THEN "Minors" ELSE <<"A", "B", "C", "D", "E">>[t]

\* One element of the `teams` list of the league payload.
TeamPayload(t) ==
    [id |-> t, name |-> TeamName(t), abbreviation |-> TeamName(t),
     conference |-> 6, division |-> 18, franchiseId |-> 20 + t,
     active |-> team_active[t]]

SplitsInSeason(p, season) ==
    Len(SelectSeq(splits[p], LAMBDA y : y.season = season))

NhlStints(p) == Len(SelectSeq(splits[p], LAMBDA y : y.league = NHL))

\* The source records a new stint of player p: a split is appended to the
\* year-by-year payload and the rosters follow; no run is under way, and the
\* last run no longer reflects the source.  Stints are chronological:
\* only a first split may lie in the previous season.  An NHL stint is with
\* the next team of the league; the source numbers the split by its place in
\* the season, or repeats the number of the split before it.
NewStint(p) ==
    /\ pc \in {"idle", "done", "crashed", "exited"}
    /\ pc' = "idle"
    /\ stints > 0
    /\ stints' = stints - 1
    /\ \E season \in (IF splits[p] = <<>> THEN {previous_season, current_season}
                                         ELSE {current_season}),
          league \in {NHL, AHL},
          repeat \in BOOLEAN :
        LET n    == Len(splits[p])
            team == IF league = NHL
                    THEN (IF NhlStints(p) < NTeams THEN NhlStints(p) + 1 ELSE NTeams)
                    ELSE 0
            seq  == IF repeat THEN splits[p][n].sequenceNumber
                              ELSE SplitsInSeason(p, season) + 1
        IN  /\ repeat => (n > 0 /\ splits[p][n].season = season)
            /\ splits' = [splits EXCEPT ![p] = Append(@,
                            [season |-> season, league |-> league,
                             team |-> team, sequenceNumber |-> seq])]
            /\ club' = [club EXCEPT ![p] = team]
    /\ req' = NoRequest
    /\ recon' = <<>>
    /\ writes' = <<>>
    /\ UNCHANGED <<teams, players, team_players, skater_season_stats,
                   goalie_season_stats, exit_status, team_list, ti,
                   player_list, pi, nhl_years, yi, position, ups,
                   faults, runs>>
    /\ UNCHANGED jrVars

\* The source reports team t as no longer active; no run is under way.
TeamFolds(t) ==
    /\ pc \in {"idle", "done", "crashed", "exited"}
    /\ pc' = "idle"
    /\ team_active[t]
    /\ team_active' = [team_active EXCEPT ![t] = FALSE]
    /\ req' = NoRequest
    /\ recon' = <<>>
    /\ writes' = <<>>
    /\ UNCHANGED <<teams, players, team_players, skater_season_stats,
                   goalie_season_stats, exit_status, team_list, ti,
                   player_list, pi, nhl_years, yi, club, splits, position,
                   ups, faults, runs, stints, script, config>>
    /\ UNCHANGED <<junior_skater_stats, junior_goalie_stats, prospect,
                   season_data, si, seqchk, picks, served, draftVars, rerun>>

(***************************************************************************)
(* sql_select, sql_insert, sql_update                                      *)
(***************************************************************************)

\* a WHERE clause that compares columns with values: `key` maps the columns
\* to the values
Matches(r, key) == \A f \in DOMAIN key : r[f] = key[f]

\* a SET clause: `set` maps the assigned columns to their new values
Assign(r, set) == [f \in DOMAIN r |-> IF f \in DOMAIN set THEN set[f] ELSE r[f]]

\* cursor.fetchone() of a SELECT: a row, None, or the error value 1
sql_select(table, key, ok) ==
    IF ~ok THEN [tag |-> "error"]
    ELSE IF \E r \in BagToSet(table) : Matches(r, key) THEN [tag |-> "row"]
    ELSE [tag |-> "none"]

\* a variant that takes the error value for "no row"
Truthy_row(check) == check.tag = "row"

\* `if record_check:` -- a row and the error value 1 are true, None is false
Truthy(check) == check.tag # "none"

\* a variant that keeps the row of a failed INSERT
sql_insert_kept(table, row, ok) == table (+) SetToBag({row})

\* the table after sql_insert: committed, or rolled back
sql_insert(table, row, ok) ==
    IF ok THEN table (+) SetToBag({row}) ELSE table

\* the table after sql_update: committed, or rolled back
sql_update(table, key, set, ok) ==
    IF ok THEN BagOfAll(LAMBDA r : IF Matches(r, key) THEN Assign(r, set) ELSE r,
                        table)
          ELSE table

\* a variant that reports success whatever happened
Status_zero(ok) == 0

\* the value sql_insert / sql_update return
Status(ok) == IF ok THEN 0 ELSE 1

RowsWhere(table, key) ==
    BagCardinality([r \in {x \in BagToSet(table) : Matches(x, key)} |-> table[r]])

\* The select-then-write step shared by _teams, _players and the stats
\* pulls: the table after it, the statement it executed, and whether a row
\* with the key existed when the existence query ran.
select_then_write(table, key, row, set, selOk, wOk) ==
    LET record_check == sql_select(table, key, selOk)
    IN  IF Truthy(record_check)
        THEN [table  |-> sql_update(table, key, set, wOk),
              stmts  |-> <<"UPDATE">>,
              status |-> Status(wOk)]
        ELSE [table  |-> sql_insert(table, row, wOk),
              stmts  |-> <<"INSERT">>,
              status |-> Status(wOk)]

(***************************************************************************)
(* History kept for the properties                                         *)
(***************************************************************************)

Cost(ok) == IF ok THEN 0 ELSE 1

\* the answers of a request that succeeds at its first attempt
Clean == [k \in 1..MaxTries |-> "ok"]

ReqCost(outs) == IF outs = Clean THEN 0 ELSE 1

\* One answer sequence for each path through request_data.
ReqCases ==
    {Clean,
     <<"timeout", "timeout", "ok">>, <<"timeout", "timeout", "timeout">>,
     <<"bad", "ok", "ok">>, <<"bad", "bad", "bad">>, <<"bad", "timeout", "bad">>,
     <<"error", "ok", "ok">>}

\* A write statement as the properties see it: the table, the statement,
\* whether it was committed, and the value sql_insert / sql_update returned.
Write(tbl, stmt, ok) ==
    [tbl |-> tbl, stmt |-> stmt, ok |-> ok, status |-> Status(ok)]

\* A select-then-write step as the properties see it.
Step(tbl, key, existed, r) ==
    [tbl |-> tbl, key |-> key, existed |-> existed, stmts |-> r.stmts]

\* An upsert of (tbl, key) with the field values `fields` has been performed:
\* nw counts the consecutive upserts of that key with these values and no
\* write failure, nq those that also had no failed existence query.
Upserted(u, tbl, key, fields, selOk, wOk) ==
    LET old  == {e \in u : e.tbl = tbl /\ e.key = key}
        same == {e \in old : e.fields = fields}
        pw   == IF same = {} THEN 0 ELSE (CHOOSE e \in same : TRUE).nw
        pq   == IF same = {} THEN 0 ELSE (CHOOSE e \in same : TRUE).nq
        cap(n) == IF n > 2 THEN 2 ELSE n
    IN  (u \ old) \cup
        {[tbl |-> tbl, key |-> key, fields |-> fields,
          nw |-> IF wOk THEN cap(pw + 1) ELSE 0,
          nq |-> IF wOk /\ selOk THEN cap(pq + 1) ELSE 0]}

(***************************************************************************)
(* nhl_data_pull: __main__ and _teams                                      *)
(***************************************************************************)

\* a variant of the callers that goes on when request_data returned None
caller_keys_tolerant(res) ==
    IF res.kind = "exit" THEN "exited" ELSE "ok"

\* What becomes of the run when a caller uses the result of request_data
\* (`for key in dataset.keys()`): it goes on with a parsed body, has already
\* left through sys.exit(1), or dies of the AttributeError on None.
caller_keys(res) ==
    IF res.kind \in {"json", "badjson"} THEN "ok"
    ELSE IF res.kind = "exit" THEN "exited"
    ELSE "crashed"

Request(outs) ==
    /\ outs \in ReqCases
    /\ ReqCost(outs) <= faults

\* what the environment may answer while it may still inject a failure
Requests == IF faults > 0 THEN ReqCases ELSE {Clean}
Flags == IF faults > 0 THEN BOOLEAN ELSE {TRUE}

ReqRecord(outs) == [prog |-> "nhl", outs |-> outs, res |-> nhl_request_data(outs)]

\* database_connect: the connection, or the end of the process through
\* the bare sys.exit() of its except clause (exit status 0).
database_connect(ok) ==
    IF ok THEN [tag |-> "connection"] ELSE [tag |-> "exit", status |-> 0]

\* a variant that starts with the skater pull whatever STATS LIST says
stats_start_all(stats_list) == "skaters_select"

\* __main__: the first stats pull STATS LIST selects; with a value other
\* than ALL, SKATERS and GOALIES the script goes on to close the connection
stats_start(stats_list) ==
    IF stats_list = "ALL" THEN "skaters_select"
    ELSE IF stats_list = "SKATERS" THEN "skaters_select"
    ELSE IF stats_list = "GOALIES" THEN "goalies_select"
    ELSE "closing"

\* __main__: where the script goes after the roster pull, after the teams
\* pull and after the connection is open
AfterPlayers == stats_start(config.stats_list)
AfterTeams ==
    IF config.players_list # "NONE" THEN "players_select" ELSE AfterPlayers
AfterConnect ==
    IF config.teams_list # "NONE" THEN "teams_fetch" ELSE AfterTeams

\* A new run of the script begins and opens its database connection.
StartRun ==
    /\ script = "nhl"
    /\ pc \in {"idle", "done", "crashed", "exited"}
    /\ runs > 0
    /\ runs' = runs - 1
    /\ \E dbOk \in Flags :
        LET db_connect == database_connect(dbOk) IN
        /\ faults' = faults - (IF dbOk THEN 0 ELSE 1)
        /\ IF db_connect.tag = "exit"
           THEN pc' = "exited" /\ exit_status' = db_connect.status
           ELSE pc' = AfterConnect /\ UNCHANGED exit_status
    /\ team_list' = <<>> /\ ti' = 1
    /\ player_list' = <<>> /\ pi' = 1
    /\ nhl_years' = <<>> /\ yi' = 1
    /\ recon' = <<>>
    /\ writes' = <<>>
    /\ req' = NoRequest
    /\ UNCHANGED <<teams, players, team_players, skater_season_stats,
                   goalie_season_stats, club, splits, position, ups, stints>>
    /\ UNCHANGED jrVars

\* _teams: request the league payload and take its `teams` list.
TeamsFetch ==
    /\ pc = "teams_fetch"
    /\ \E outs \in Requests :
        LET r == ReqRecord(outs) IN
        /\ Request(outs)
        /\ req' = r
        /\ faults' = faults - ReqCost(outs)
        /\ IF caller_keys(r.res) = "ok"
           THEN /\ team_list' = [t \in 1..NTeams |-> <<t, TeamName(t)>>]
                /\ ti' = 1
                /\ pc' = "teams"
                /\ UNCHANGED exit_status
           ELSE /\ pc' = caller_keys(r.res)
                /\ exit_status' = 1
                /\ UNCHANGED <<team_list, ti>>
    /\ recon' = <<>>
    /\ writes' = <<>>
    /\ UNCHANGED <<teams, players, team_players, skater_season_stats,
                   goalie_season_stats, player_list, pi, nhl_years, yi,
                   club, splits, position, ups, runs, stints>>
    /\ UNCHANGED jrVars

\* the row _teams inserts for a team of the payload
TeamRow(T) ==
    [id |-> T.id, name |-> T.name, abbreviation |-> T.abbreviation,
     conf_id |-> T.conference, division_id |-> T.division,
     franchise_id |-> T.franchiseId, active |-> T.active]

\* the SET clause of the UPDATE of _teams
TeamSet(T) ==
    [id |-> T.id, name |-> T.name, abbreviation |-> T.abbreviation,
     conf_id |-> T.conference, division_id |-> T.division]

\* _teams: one pass of the loop over the teams of the payload.
TeamsPass(selOk, wOk) ==
    /\ pc = "teams"
    /\ ti <= Len(team_list)
    /\
        LET T == TeamPayload(team_list[ti][1])
            key == [id |-> T.id]
            res == select_then_write(teams, key, TeamRow(T), TeamSet(T),
                                     selOk, wOk)
        IN  /\ Cost(selOk) + Cost(wOk) <= faults
            /\ faults' = faults - (Cost(selOk) + Cost(wOk))
            /\ teams' = res.table
            /\ recon' = <<Step("teams", <<T.id>>, RowsWhere(teams, key) > 0, res)>>
            /\ writes' = <<Write("teams", res.stmts[1], wOk)>>
            /\ ups' = Upserted(ups, "teams", <<T.id>>, TeamRow(T), selOk, wOk)
    /\ ti' = ti + 1
    /\ pc' = IF ti = Len(team_list) THEN AfterTeams ELSE "teams"
    /\ UNCHANGED <<players, team_players, skater_season_stats,
                   goalie_season_stats, exit_status, team_list, player_list,
                   pi, nhl_years, yi, club, splits, position, req, runs, stints>>
    /\ UNCHANGED jrVars

TeamsStep == \E selOk \in Flags, wOk \in Flags : TeamsPass(selOk, wOk)

(***************************************************************************)
(* nhl_data_pull: _players and _get_player_sequence                        *)
(***************************************************************************)

\* the rows of a table in ascending id, one element per row
RECURSIVE RowsToSeq(_)
RowsToSeq(B) ==
    IF BagToSet(B) = {} THEN <<>>
    ELSE LET r == CHOOSE x \in BagToSet(B) : \A y \in BagToSet(B) : x.id <= y.id
         IN  <<r>> \o RowsToSeq(B (-) SetToBag({r}))

RECURSIVE SetToSeq(_)
SetToSeq(S) ==
    IF S = {} THEN <<>>
    ELSE LET m == CHOOSE x \in S : \A y \in S : x <= y
         IN  <<m>> \o SetToSeq(S \ {m})

\* the next roster, or the stats pulls after the last one
NextRoster ==
    /\ pi' = 1
    /\ IF ti < Len(team_list)
       THEN pc' = "roster_fetch" /\ ti' = ti + 1
       ELSE pc' = AfterPlayers /\ ti' = ti

\* a variant that stays at the roster entry
NextEntry_again == pc' = "players" /\ pi' = pi /\ ti' = ti

\* the next roster entry, or the next roster after the last one
NextEntry ==
    IF pi < Len(player_list)
    THEN pc' = "players" /\ pi' = pi + 1 /\ ti' = ti
    ELSE NextRoster

\* _players: SELECT id, name FROM teams (TEAM_ID = ALL).
PlayersSelect ==
    /\ pc = "players_select"
    /\ \E selOk \in Flags :
        /\ Cost(selOk) <= faults
        /\ faults' = faults - Cost(selOk)
        /\ IF selOk
           THEN LET rows == RowsToSeq(teams)
                IN  /\ team_list' = [k \in 1..Len(rows) |-> <<rows[k].id, rows[k].name>>]
                    /\ ti' = 1
                    /\ pc' = IF Len(rows) = 0 THEN AfterPlayers ELSE "roster_fetch"
                    /\ UNCHANGED exit_status
           \* the loop unpacks the error value 1: TypeError
           ELSE /\ pc' = "crashed"
                /\ exit_status' = 1
                /\ UNCHANGED <<team_list, ti>>
    /\ pi' = 1
    /\ recon' = <<>>
    /\ writes' = <<>>
    /\ UNCHANGED <<teams, players, team_players, skater_season_stats,
                   goalie_season_stats, player_list, nhl_years, yi, club,
                   splits, position, req, ups, runs, stints>>
    /\ UNCHANGED jrVars

\* parse_roster of the roster payload of a team: the players of the team
parse_roster(team_id) == SetToSeq({p \in Players : club[p] = team_id})

\* _players: request the roster of the next team of team_list.
RosterFetch ==
    /\ pc = "roster_fetch"
    /\ ti <= Len(team_list)
    /\ \E outs \in Requests :
        LET r == ReqRecord(outs) IN
        /\ Request(outs)
        /\ req' = r
        /\ faults' = faults - ReqCost(outs)
        /\ IF caller_keys(r.res) = "ok"
           THEN /\ player_list' = parse_roster(team_list[ti][1])
                /\ IF player_list' = <<>>
                   THEN NextRoster
                   ELSE pc' = "players" /\ pi' = 1 /\ ti' = ti
                /\ UNCHANGED exit_status
           ELSE /\ pc' = caller_keys(r.res)
                /\ exit_status' = 1
                /\ UNCHANGED <<player_list, pi, ti>>
    /\ recon' = <<>>
    /\ writes' = <<>>
    /\ UNCHANGED <<teams, players, team_players, skater_season_stats,
                   goalie_season_stats, team_list, nhl_years, yi, club,
                   splits, position, ups, runs, stints>>
    /\ UNCHANGED jrVars

\* the value that stands for None where a sequence number is expected
NoSequence == 0

\* a variant that keeps the first split it finds
get_player_sequence_first(years, team) ==
    LET found == SelectSeq(years, LAMBDA y : y.season = current_season)
        mine  == SelectSeq(found, LAMBDA y : y.league = NHL /\ TeamName(y.team) = team)
    IN  IF Len(found) >= 1
        THEN (IF mine = <<>> THEN NoSequence ELSE mine[1].sequenceNumber)
        ELSE NoSequence

\* _get_player_sequence on the splits of a year-by-year payload: the
\* sequenceNumber of the last split of the current season that is an NHL
\* split with the team named `team`, None when there is none.
get_player_sequence(years, team) ==
    LET found == SelectSeq(years, LAMBDA y : y.season = current_season)
        mine  == SelectSeq(found, LAMBDA y : y.league = NHL /\ TeamName(y.team) = team)
    IN  IF Len(found) >= 1
        THEN (IF mine = <<>> THEN NoSequence ELSE mine[Len(mine)].sequenceNumber)
        ELSE NoSequence

PlayerRow(id, active, code) == [id |-> id, active |-> active, position_code |-> code]

TeamPlayerRow(player, team, season, active, seq) ==
    [player_id |-> player, team_id |-> team, season |-> season,
     active |-> active, sequence |-> seq]

\* a variant of the key that leaves the team out
TeamPlayerKey_noTeam(player, team, season, seq) ==
    [player_id |-> player, season |-> season, sequence |-> seq]

\* WHERE player_id = .. AND team_id = .. AND season = .. AND sequence = ..
TeamPlayerKey(player, team, season, seq) ==
    [player_id |-> player, team_id |-> team, season |-> season, sequence |-> seq]

\* _players: one pass of the loop over the entries of a roster.
PlayersPass(outs1, outs2, active, s1, w1, s2, w2) ==
    /\ pc = "players"
    /\ pi <= Len(player_list)
    /\
        LET player_id == player_list[pi]
            team_id   == team_list[ti][1]
            team_name == team_list[ti][2]
            dataset   == ReqRecord(outs1)
            years     == ReqRecord(outs2)
            sequence  == get_player_sequence(splits[player_id], team_name)
            season    == current_season
            pkey      == [id |-> player_id]
            prow      == PlayerRow(player_id, active, position[player_id])
            pres      == select_then_write(players, pkey, prow, prow, s1, w1)
            tmatch    == TeamPlayerKey(player_id, team_id, season, sequence)
            trow      == TeamPlayerRow(player_id, team_id, season, active, sequence)
            tres      == select_then_write(team_players, tmatch, trow, trow,
                                           s2, w2)
            tkey      == <<player_id, team_id, season, sequence>>
        IN
        IF caller_keys(dataset.res) # "ok"
        THEN /\ Request(outs1)
             /\ outs2 = Clean /\ active /\ s1 /\ w1 /\ s2 /\ w2
             /\ req' = dataset
             /\ faults' = faults - ReqCost(outs1)
             /\ pc' = caller_keys(dataset.res) /\ exit_status' = 1
             /\ recon' = <<>>
             /\ writes' = <<>>
             /\ UNCHANGED <<players, team_players, ups, ti, pi>>
        ELSE IF caller_keys(years.res) # "ok"
        THEN /\ Request(outs1)
             /\ ReqCost(outs1) + ReqCost(outs2) <= faults
             /\ active /\ s1 /\ w1 /\ s2 /\ w2
             /\ req' = years
             /\ faults' = faults - (ReqCost(outs1) + ReqCost(outs2))
             /\ pc' = caller_keys(years.res) /\ exit_status' = 1
             /\ recon' = <<>>
             /\ writes' = <<>>
             /\ UNCHANGED <<players, team_players, ups, ti, pi>>
        ELSE IF sequence = NoSequence
        THEN \* no NHL data found for this season: continue
             /\ ReqCost(outs1) + ReqCost(outs2) <= faults
             /\ active /\ s1 /\ w1 /\ s2 /\ w2
             /\ req' = years
             /\ faults' = faults - (ReqCost(outs1) + ReqCost(outs2))
             /\ NextEntry
             /\ recon' = <<>>
             /\ writes' = <<>>
             /\ UNCHANGED <<players, team_players, ups, exit_status>>
        ELSE /\ ReqCost(outs1) + ReqCost(outs2)
                    + Cost(s1) + Cost(w1) + Cost(s2) + Cost(w2) <= faults
             /\ faults' = faults - (ReqCost(outs1) + ReqCost(outs2)
                                    + Cost(s1) + Cost(w1) + Cost(s2) + Cost(w2))
             /\ req' = years
             /\ players' = pres.table
             /\ team_players' = tres.table
             /\ recon' = <<Step("players", <<player_id>>,
                                RowsWhere(players, pkey) > 0, pres),
                           Step("team_players", tkey,
                                RowsWhere(team_players, tmatch) > 0, tres)>>
             /\ writes' = <<Write("players", pres.stmts[1], w1),
                            Write("team_players", tres.stmts[1], w2)>>
             /\ ups' = Upserted(Upserted(ups, "players", <<player_id>>, prow, s1, w1),
                                "team_players", tkey, trow, s2, w2)
             /\ NextEntry
             /\ UNCHANGED exit_status
    /\ UNCHANGED <<teams, skater_season_stats, goalie_season_stats, team_list,
                   player_list, nhl_years, yi, club, splits, position, runs, stints>>
    /\ UNCHANGED jrVars

PlayersStep ==
    \E outs1 \in Requests, outs2 \in Requests, active \in BOOLEAN,
       s1 \in Flags, w1 \in Flags, s2 \in Flags, w2 \in Flags :
        PlayersPass(outs1, outs2, active, s1, w1, s2, w2)

(***************************************************************************)
(* nhl_data_pull: the year-by-year stats pulls and _team_players_check     *)
(***************************************************************************)

\* a variant that brings the active flag of a row it finds up to date
team_players_check_refresh(table, player, team, season, active, seq, selOk, wOk) ==
    LET key   == TeamPlayerKey(player, team, season, seq)
        check == sql_select(table, key, selOk)
    IN  IF check.tag = "error"
        THEN [table |-> table, ret |-> "TypeError", inserts |-> 0]
        ELSE IF check.tag = "none"
        THEN [table |-> sql_insert(table,
                            TeamPlayerRow(player, team, season, active, seq), wOk),
              ret |-> "0", inserts |-> 1]
        ELSE [table |-> sql_update(table, key, [active |-> active], TRUE),
              ret |-> "1", inserts |-> 0]

\* _team_players_check: the team_players table after the call and what the
\* call returns ("TypeError": the error value 1 of sql_select is subscripted).
team_players_check(table, player, team, season, active, seq, selOk, wOk) ==
    LET check == sql_select(table, TeamPlayerKey(player, team, season, seq),
                            selOk)
    IN  IF check.tag = "error"
        THEN [table |-> table, ret |-> "TypeError", inserts |-> 0]
        ELSE IF check.tag = "none"
        THEN [table |-> sql_insert(table,
                            TeamPlayerRow(player, team, season, active, seq), wOk),
              ret |-> "0", inserts |-> 1]
        ELSE [table |-> table, ret |-> "1", inserts |-> 0]

\* a variant that looks at the place of the split only
split_active_last(i, n, season) == ~(i < n - 1)

\* the active flag the stats pulls compute for the split at index i (from 0)
\* of the n NHL splits of a player
split_active(i, n, season) ==
    IF i < n - 1 THEN FALSE
    ELSE IF season = current_season THEN TRUE
    ELSE FALSE

StatsRow(player, team, season, seq) ==
    [player_id |-> player, team_id |-> team, season |-> season, sequence |-> seq]

StatsKey(player, team, season, seq) ==
    [player_id |-> player, team_id |-> team, season |-> season, sequence |-> seq]

StatsTable(kind) == IF kind = "skater" THEN skater_season_stats ELSE goalie_season_stats

\* a variant that runs the skater pull after the goalie pull as well
AfterStats_again(kind) ==
    IF kind = "skater" THEN "goalies_select" ELSE "skaters_select"

\* where the script goes after the stats pull of `kind`: the goalie pull
\* follows the skater pull when STATS LIST = ALL
AfterStats(kind) ==
    IF kind = "skater" /\ config.stats_list = "ALL" THEN "goalies_select"
    ELSE "closing"

\* values of skatersByYear / goaliesByYear: ALL, or a list of player ids
ByYear == {"ALL", "LIST"}

\* values of TEAMS LIST and PLAYERS LIST, and of STATS LIST
PhaseList == {"ALL", "NONE"}
StatsList == {"ALL", "SKATERS", "GOALIES", "NONE"}

\* the settings of the configuration file that select what a run does
Config ==
    [byYear : ByYear, teams_list : PhaseList, players_list : PhaseList,
     stats_list : StatsList]

\* a configuration that runs every pull
RunAll(by) ==
    [byYear |-> by, teams_list |-> "ALL", players_list |-> "ALL",
     stats_list |-> "ALL"]

\* the ids a configuration file lists for the pull of `kind`: the tracked
\* players of that kind
ConfigList(kind) == {p \in Players : (position[p] = "G") = (kind = "goalie")}

\* The player ids of a stats pull: SELECT DISTINCT player_id FROM team_players
\* INNER JOIN players ... WHERE position_code != 'G' (skaters) or = 'G'
\* (goalies) when skatersByYear / goaliesByYear is ALL, else the listed ids.
StatsSelect(kind) ==
    /\ pc = (IF kind = "skater" THEN "skaters_select" ELSE "goalies_select")
    /\ \E selOk \in Flags :
        /\ Cost(selOk) <= faults
        /\ faults' = faults - Cost(selOk)
        /\ IF config.byYear # "ALL"
           \* the player ids listed in the configuration file
           THEN LET ids == ConfigList(kind)
                IN  /\ selOk
                    /\ player_list' = SetToSeq(ids)
                    /\ pc' = IF ids = {} THEN AfterStats(kind) ELSE kind \o "_fetch"
                    /\ UNCHANGED exit_status
           ELSE IF selOk
           THEN LET ids == {r.player_id : r \in
                              {x \in BagToSet(team_players) :
                                 \E q \in BagToSet(players) :
                                    /\ q.id = x.player_id
                                    /\ (q.position_code = "G") = (kind = "goalie")}}
                IN  /\ player_list' = SetToSeq(ids)
                    /\ pc' = IF ids = {} THEN AfterStats(kind) ELSE kind \o "_fetch"
                    /\ UNCHANGED exit_status
           \* the loop iterates over the error value 1: TypeError
           ELSE /\ pc' = "crashed"
                /\ exit_status' = 1
                /\ UNCHANGED player_list
    /\ pi' = 1 /\ yi' = 1
    /\ recon' = <<>>
    /\ writes' = <<>>
    /\ UNCHANGED <<teams, players, team_players, skater_season_stats,
                   goalie_season_stats, team_list, ti, nhl_years, club, splits,
                   position, req, ups, runs, stints>>
    /\ UNCHANGED jrVars

SkatersSelect == StatsSelect("skater")
GoaliesSelect == StatsSelect("goalie")

\* the next player of the list, or the next phase after the last one
NextPlayer(kind) ==
    /\ yi' = 1
    /\ IF pi < Len(player_list)
       THEN pc' = kind \o "_fetch" /\ pi' = pi + 1
       ELSE pc' = AfterStats(kind) /\ pi' = pi

\* a variant that keeps every split
nhl_splits_all(year_stats) == year_stats

\* the splits of a year-by-year payload whose league is the NHL
nhl_splits(year_stats) == SelectSeq(year_stats, LAMBDA y : y.league = NHL)

\* Request the year-by-year payload of the next player and keep its NHL splits.
StatsFetch(kind) ==
    /\ pc = kind \o "_fetch"
    /\ pi <= Len(player_list)
    /\ \E outs \in Requests :
        LET r == ReqRecord(outs)
            year_stats == splits[player_list[pi]]
        IN
        /\ Request(outs)
        /\ req' = r
        /\ faults' = faults - ReqCost(outs)
        /\ IF caller_keys(r.res) = "ok"
           THEN /\ nhl_years' = nhl_splits(year_stats)
                /\ IF nhl_years' = <<>>
                   THEN NextPlayer(kind)
                   ELSE pc' = kind /\ yi' = 1 /\ pi' = pi
                /\ UNCHANGED exit_status
           ELSE /\ pc' = caller_keys(r.res)
                /\ exit_status' = 1
                /\ UNCHANGED <<nhl_years, yi, pi>>
    /\ recon' = <<>>
    /\ writes' = <<>>
    /\ UNCHANGED <<teams, players, team_players, skater_season_stats,
                   goalie_season_stats, team_list, ti, player_list, club,
                   splits, position, ups, runs, stints>>
    /\ UNCHANGED jrVars

SkaterFetch == StatsFetch("skater")
GoalieFetch == StatsFetch("goalie")

\* One pass of the loop over the NHL splits of a player.
StatsPass(kind, s1, w1, s2, w2) ==
    /\ pc = kind
    /\ yi <= Len(nhl_years)
    /\
        LET year      == nhl_years[yi]
            player_id == player_list[pi]
            season    == year.season
            team_id   == year.team
            sequence  == year.sequenceNumber
            active    == split_active(yi - 1, Len(nhl_years), season)
            chk       == team_players_check(team_players, player_id, team_id,
                                            season, active, sequence, s1, w1)
            match     == StatsKey(player_id, team_id, season, sequence)
            row       == StatsRow(player_id, team_id, season, sequence)
            res       == select_then_write(StatsTable(kind), match, row, row,
                                           s2, w2)
            key       == <<player_id, team_id, season, sequence>>
            w1used    == IF chk.inserts = 1 THEN w1 ELSE TRUE
        IN
        IF chk.ret = "TypeError"
        THEN /\ w1 /\ s2 /\ w2
             /\ faults' = faults - 1
             /\ pc' = "crashed" /\ exit_status' = 1
             /\ recon' = <<>>
             /\ writes' = <<>>
             /\ UNCHANGED <<team_players, skater_season_stats,
                            goalie_season_stats, ups, pi, yi>>
        ELSE /\ chk.inserts = 0 => w1
             /\ Cost(w1) + Cost(s2) + Cost(w2) <= faults
             /\ faults' = faults - (Cost(w1) + Cost(s2) + Cost(w2))
             /\ team_players' = chk.table
             /\ IF kind = "skater"
                THEN skater_season_stats' = res.table /\ UNCHANGED goalie_season_stats
                ELSE goalie_season_stats' = res.table /\ UNCHANGED skater_season_stats
             /\ recon' = <<Step(kind \o "_season_stats", key,
                                RowsWhere(StatsTable(kind), match) > 0, res)>>
             /\ writes' = (IF chk.inserts = 1
                           THEN <<Write("team_players", "INSERT", w1)>>
                           ELSE <<>>)
                          \o <<Write(kind \o "_season_stats", res.stmts[1], w2)>>
             /\ ups' = Upserted(
                          Upserted(ups, "team_players", key,
                                   TeamPlayerRow(player_id, team_id, season,
                                                 active, sequence), TRUE, w1used),
                          kind \o "_season_stats", key, row, s2, w2)
             /\ IF yi < Len(nhl_years)
                THEN pc' = kind /\ yi' = yi + 1 /\ pi' = pi
                ELSE NextPlayer(kind)
             /\ UNCHANGED exit_status
    /\ UNCHANGED <<teams, players, team_list, ti, player_list, nhl_years,
                   club, splits, position, req, runs, stints>>
    /\ UNCHANGED jrVars

StatsStep(kind) ==
    \E s1 \in Flags, w1 \in Flags, s2 \in Flags, w2 \in Flags :
        StatsPass(kind, s1, w1, s2, w2)

SkaterStep == StatsStep("skater")
GoalieStep == StatsStep("goalie")

\* __main__: close the database connection; the script ends normally.
Finish ==
    /\ pc = "closing"
    /\ pc' = "done"
    /\ exit_status' = 0
    /\ recon' = <<>>
    /\ writes' = <<>>
    /\ UNCHANGED <<teams, players, team_players, skater_season_stats,
                   goalie_season_stats, team_list, ti, player_list, pi,
                   nhl_years, yi, club, splits, position, req, ups, faults, runs, stints>>
    /\ UNCHANGED jrVars

(***************************************************************************)
(* juniors_data_pull: the junior seasons loop and _sequence_check          *)
(***************************************************************************)

\* seasons a prospect's payload may hold, and sequence numbers it may report
MaxJrSeasons == 2
MaxJrSeq == 2
\* runs of the juniors script in one behaviour
MaxJrRuns == 2
\* splits the source serves in one behaviour
MaxJrServed == 3

\* the players the source knows
Prospects == Players
\* config['JUNIORS']['LEAGUES']
junior_leagues == {"OHL"}
JrLeagues == {"OHL", "KHL"}
JrSeasons == {"20172018", "20182019"}
JrPositions == {"Goalie", "Center"}

JrSplit == [season : JrSeasons, league : JrLeagues, sequenceNumber : 1..MaxJrSeq]

JrPayloads == UNION {[1..n -> JrSplit] : n \in 0..MaxJrSeasons}

NoCheck == [called |-> FALSE]

JrKey(id, season, seq) ==
    [player_id |-> id, season |-> season, sequence |-> seq]

\* rows of both junior tables for (player, season, sequence)
JrRows(id, season, seq) ==
    RowsWhere(junior_skater_stats, JrKey(id, season, seq))
  + RowsWhere(junior_goalie_stats, JrKey(id, season, seq))

\* a variant that hands the candidate back whatever the tables hold
sequence_check_asis(id, season, seq, s1, s2) ==
    IF s1 /\ s2 THEN [tag |-> "ok", seq |-> seq]
    ELSE [tag |-> "TypeError", seq |-> seq]

\* _sequence_check: the value it returns ("TypeError": the error value 1 of
\* sql_select is subscripted).
sequence_check(id, season, seq, s1, s2) ==
    LET skater_check == sql_select(junior_skater_stats, JrKey(id, season, seq), s1)
        goalie_check == sql_select(junior_goalie_stats, JrKey(id, season, seq), s2)
    IN  IF skater_check.tag = "error" \/ goalie_check.tag = "error"
        THEN [tag |-> "TypeError", seq |-> seq]
        ELSE IF skater_check.tag = "row" \/ goalie_check.tag = "row"
        THEN [tag |-> "ok", seq |-> seq + 1]
        ELSE [tag |-> "ok", seq |-> seq]

JrRow(id, season, league, seq) ==
    [player_id |-> id, season |-> season, league |-> league, sequence |-> seq]

(***************************************************************************)
(* juniors_data_pull: the draft picks and their NHL player ids             *)
(***************************************************************************)

\* the string 'NULL' the script puts where the payload holds no id
NULL == 0

\* config['DEFAULT']['DRAFT']
draft_year == "2017"

NullName == [first |-> "NULL", last |-> "NULL"]

\* the name of a pick in the draft payload
DraftName == [first |-> "NICO", last |-> "HISCHIER"]

\* fullName of the profiles the source may serve for a player id
ProfileNames ==
    {[first |-> "Nico",  last |-> "Hischier"],
     [first |-> "Nolan", last |-> "Hischier"],
     [first |-> "Luca",  last |-> "Hischier"],
     [first |-> "Nico",  last |-> "Makar"]}

\* str.upper()
Upper(w) ==
    CASE w \in {"Nico", "NICO"}         -> "NICO"
      [] w = "Nolan"                    -> "NOLAN"
      [] w = "Luca"                     -> "LUCA"
      [] w \in {"Hischier", "HISCHIER"} -> "HISCHIER"
      [] w = "Makar"                    -> "MAKAR"
      [] OTHER                          -> w

\* w[0]
FirstLetter(w) ==
    CASE w \in {"Nico", "NICO", "Nolan", "NULL"} -> "N"
      [] w = "Luca"                              -> "L"
      [] w \in {"Hischier", "HISCHIER"}          -> "H"
      [] OTHER                                   -> "M"

\* a variant that takes the profile whenever the last names match
name_compare_last(full_name, temp_name) ==
    IF Upper(full_name.last) = Upper(temp_name.last) THEN "match" ELSE "other"

\* the comparison of the profile's name with the pick's name
name_compare(full_name, temp_name) ==
    IF Upper(full_name.last) = Upper(temp_name.last)
    THEN IF Upper(full_name.first) = Upper(temp_name.first) THEN "match"
         ELSE IF FirstLetter(full_name.first) = FirstLetter(temp_name.first)
         THEN "first_letter"
         ELSE "other"
    ELSE "other"

\* one pick of the draft payload
Pick(k, hasProfile) ==
    [pickOverall |-> k, fullName |-> DraftName,
     prospect_id |-> IF hasProfile THEN k ELSE NULL]

\* the draft payloads of 1..n picks
Drafts(n) ==
    UNION {{[k \in 1..m |-> Pick(k, f[k])] : f \in [1..m -> BOOLEAN]} : m \in 1..n}

NoLookup == [direct |-> NULL, matched |-> FALSE, tried |-> 0]
NoProspect == [id |-> NULL, position |-> "NULL"]

\* the profile is of the pick: the last names are equal, and the first names
\* or their first letters, whatever the case of the letters
SameName(a, b) ==
    /\ Upper(a.last) = Upper(b.last)
    /\ \/ Upper(a.first) = Upper(b.first)
       \/ FirstLetter(a.first) = FirstLetter(b.first)
NoRow == [tag |-> "none"]

DraftRow(id, overall) ==
    [nhl_player_id |-> id, draft_year |-> draft_year, overall_pick |-> overall]

\* WHERE draft_year = .. AND overall_pick = ..
DraftKey(overall) == [draft_year |-> draft_year, overall_pick |-> overall]

NhlPlayerRow(id) == [id |-> id]

\* cursor.fetchone() with the row it returns: any matching row, None, or
\* the error value 1
sql_fetchone(table, key, ok) ==
    IF ~ok THEN {[tag |-> "error"]}
    ELSE IF \E r \in BagToSet(table) : Matches(r, key)
    THEN {[tag |-> "row", row |-> r] : r \in {x \in BagToSet(table) : Matches(x, key)}}
    ELSE {NoRow}

\* a variant that reports a record only when the query returned a row
nhl_player_check_strict(check) == IF check.tag = "row" THEN 0 ELSE 1

\* _nhl_player_check: 0 when a record was found, else 1
nhl_player_check(check) == IF Truthy(check) THEN 0 ELSE 1

\* what a run was given for a pick it stored: the id and position it found
\* and the splits of the season payload
Given(p, body) == [id |-> p.id, position |-> p.position, body |-> body]

\* the inputs of a finished run and the rows it left
Left(inputs) ==
    [inputs |-> inputs, nhl_draft |-> nhl_draft,
     junior_skater_stats |-> junior_skater_stats,
     junior_goalie_stats |-> junior_goalie_stats]

NoRerun == [track |-> FALSE, n |-> 0, inputs |-> <<>>, first |-> <<>>]

JrReq(outs) == [prog |-> "jr", outs |-> outs, res |-> jr_request_data(outs)]

\* where the script goes when it is done with the pick pk
AfterPick == IF pk < Len(picks) THEN "jr_pick" ELSE "jr_close"

\* The juniors script starts and opens its database connection.
JrStartRun ==
    /\ script = "jr"
    /\ pc \in {"idle", "done", "crashed", "exited"}
    /\ runs > 0
    /\ runs' = runs - 1
    /\ \E dbOk \in Flags :
        LET db_connect == database_connect(dbOk) IN
        /\ faults' = faults - (IF dbOk THEN 0 ELSE 1)
        /\ IF db_connect.tag = "exit"
           THEN pc' = "exited" /\ exit_status' = db_connect.status
           ELSE pc' = "jr_draft" /\ UNCHANGED exit_status
    /\ prospect' = NoProspect
    /\ season_data' = <<>> /\ si' = 1
    /\ seqchk' = NoCheck
    /\ req' = NoRequest
    /\ writes' = <<>>
    /\ pk' = 1 /\ skip_prospect' = FALSE
    /\ fi' = 1 /\ fj' = 1 /\ previous_pick' = NoRow /\ lookup' = NoLookup
    /\ UNCHANGED <<junior_skater_stats, junior_goalie_stats, nhl_players,
                   nhl_draft, picks, served>>
    /\ rerun' = [rerun EXCEPT !.inputs = <<>>]
    /\ UNCHANGED nhlVars

\* __main__: request the draft of the configured year and take its rounds.
\* The body of a non-200 answer holds no `rounds`: KeyError.
JrDraftFetch ==
    /\ pc = "jr_draft"
    /\ \E outs \in Requests :
        LET r == JrReq(outs) IN
        /\ Request(outs)
        /\ req' = r
        /\ faults' = faults - ReqCost(outs)
        /\ IF r.res.kind = "json"
           THEN pc' = "jr_pick" /\ UNCHANGED exit_status
           ELSE /\ pc' = IF r.res.kind = "exit" THEN "exited" ELSE "crashed"
                /\ exit_status' = 1
    /\ writes' = <<>>
    /\ UNCHANGED <<junior_skater_stats, junior_goalie_stats, prospect,
                   season_data, si, seqchk, picks, served, runs>>
    /\ UNCHANGED draftVars
    /\ UNCHANGED rerun
    /\ UNCHANGED nhlVars

\* __main__: the pick's NHL player id, from its prospect profile or, when
\* the pick has no prospect id, from get_player_id.  The k-th pick of the
\* draft is player k of the source, if the source knows that player.
JrPickId ==
    /\ pc = "jr_pick"
    /\ pk <= Len(picks)
    /\ \E outs \in Requests, id \in ({picks[pk].pickOverall} \cap Prospects) \cup {NULL} :
        LET pick == picks[pk]
            r    == JrReq(outs)
            \* a body without `nhlPlayerId` gives 'NULL'
            got  == IF pick.prospect_id # NULL /\ r.res.kind = "badjson"
                    THEN NULL ELSE id
        IN
        /\ IF pick.prospect_id # NULL
           THEN /\ Request(outs)
                /\ r.res.kind # "json" => id = NULL
                /\ req' = r
                /\ faults' = faults - ReqCost(outs)
           ELSE /\ outs = Clean
                /\ UNCHANGED <<req, faults>>
        /\ IF pick.prospect_id # NULL /\ caller_keys(r.res) # "ok"
           THEN /\ pc' = caller_keys(r.res)
                /\ exit_status' = 1
                /\ UNCHANGED <<prospect, skip_prospect, lookup>>
           ELSE /\ prospect' = [id |-> got, position |-> "NULL"]
                /\ skip_prospect' = FALSE
                /\ lookup' = [direct |-> got, matched |-> FALSE, tried |-> 0]
                /\ pc' = IF got = NULL THEN "jr_fallback" ELSE "jr_profile"
                /\ UNCHANGED exit_status
    /\ writes' = <<>>
    /\ seqchk' = NoCheck
    /\ UNCHANGED <<junior_skater_stats, junior_goalie_stats,
                   season_data, si, picks, served, runs, nhl_players,
                   nhl_draft, pk, fi, fj, previous_pick>>
    /\ UNCHANGED rerun
    /\ UNCHANGED nhlVars

\* __main__: the head of one pass of `for i in range(1, 4)`: the first pick
\* of the draft is given up, else the pick i places earlier is selected.
JrFallbackSelect ==
    /\ pc = "jr_fallback"
    /\ LET overall_pick == picks[pk].pickOverall IN
       IF overall_pick = 1
       THEN /\ skip_prospect' = TRUE
            /\ pc' = "jr_profile"
            /\ UNCHANGED <<previous_pick, fj, faults>>
       ELSE \E selOk \in Flags :
              \E res \in sql_fetchone(nhl_draft, DraftKey(overall_pick - fi), selOk) :
                /\ Cost(selOk) <= faults
                /\ faults' = faults - Cost(selOk)
                /\ previous_pick' = res
                /\ fj' = 1
                /\ pc' = "jr_candidate"
                /\ UNCHANGED skip_prospect
    /\ writes' = <<>>
    /\ UNCHANGED <<junior_skater_stats, junior_goalie_stats, prospect,
                   season_data, si, seqchk, picks, served, runs, req,
                   exit_status, nhl_players, nhl_draft, pk, fi, lookup>>
    /\ UNCHANGED rerun
    /\ UNCHANGED nhlVars

\* a variant that looks four picks back
AfterCandidate_four ==
    IF fj < fi THEN [pc |-> "jr_candidate", fi |-> fi, fj |-> fj + 1]
    ELSE IF fi < 4 THEN [pc |-> "jr_fallback", fi |-> fi + 1, fj |-> fj]
    ELSE [pc |-> "jr_profile", fi |-> 1, fj |-> 1]

\* the position after pass (fi, fj) of the loops when they go on
AfterCandidate ==
    IF fj < fi THEN [pc |-> "jr_candidate", fi |-> fi, fj |-> fj + 1]
    ELSE IF fi < 3 THEN [pc |-> "jr_fallback", fi |-> fi + 1, fj |-> fj]
    ELSE [pc |-> "jr_profile", fi |-> 1, fj |-> 1]

\* __main__: one pass of `for j in range(1, i + 1)`: the id j above the
\* earlier pick's id is tried and its profile compared with the pick's name.
JrCandidate ==
    /\ pc = "jr_candidate"
    /\ \E outs \in Requests, served_name \in ProfileNames :
        LET r         == JrReq(outs)
            candidate == previous_pick.row.nhl_player_id + fj
            full_name == IF r.res.kind = "json" THEN served_name ELSE NullName
            next      == AfterCandidate
        IN
        IF previous_pick.tag # "row"
        THEN \* previous_pick[0] raises: skip, continue
             /\ outs = Clean /\ served_name = CHOOSE n \in ProfileNames : TRUE
             /\ skip_prospect' = TRUE
             /\ pc' = next.pc /\ fi' = next.fi /\ fj' = next.fj
             /\ previous_pick' = IF next.pc = "jr_profile" THEN NoRow
                                 ELSE previous_pick
             /\ UNCHANGED <<prospect, req, faults, exit_status, lookup>>
        ELSE /\ Request(outs)
             /\ r.res.kind # "json" => served_name = CHOOSE n \in ProfileNames : TRUE
             /\ req' = r
             /\ faults' = faults - ReqCost(outs)
             /\ prospect' = [id |-> candidate, position |-> "NULL"]
             /\ IF caller_keys(r.res) # "ok"
                THEN /\ pc' = caller_keys(r.res)
                     /\ exit_status' = 1
                     /\ lookup' = [lookup EXCEPT !.tried = @ + 1]
                     /\ UNCHANGED <<skip_prospect, fi, fj, previous_pick>>
                ELSE /\ lookup' = [lookup EXCEPT
                            !.matched = @ \/ SameName(full_name, picks[pk].fullName),
                            !.tried = @ + 1]
                     /\ UNCHANGED exit_status
                     /\ IF name_compare(full_name, picks[pk].fullName)
                              \in {"match", "first_letter"}
                        THEN /\ skip_prospect' = FALSE
                             /\ pc' = "jr_profile"
                             /\ fi' = 1 /\ fj' = 1 /\ previous_pick' = NoRow
                        ELSE /\ skip_prospect' = TRUE
                             /\ pc' = next.pc /\ fi' = next.fi /\ fj' = next.fj
                             /\ previous_pick' = IF next.pc = "jr_profile"
                                                 THEN NoRow ELSE previous_pick
    /\ writes' = <<>>
    /\ UNCHANGED <<junior_skater_stats, junior_goalie_stats,
                   season_data, si, seqchk, picks, served, runs, nhl_players,
                   nhl_draft, pk>>
    /\ UNCHANGED rerun
    /\ UNCHANGED nhlVars

\* __main__: a pick without an id is skipped; for the others the profile is
\* requested, the nhl_players record is checked and created if missing
\* (_nhl_player_check, _nhl_player_create) and the nhl_draft row inserted.
JrDraftPass(outs1, outs2, pos, selOk, cOk, dOk) ==
    /\ pc = "jr_profile"
    /\ IF skip_prospect
       THEN /\ outs1 = Clean /\ outs2 = Clean /\ pos = "Center"
            /\ selOk /\ cOk /\ dOk
            /\ pc' = AfterPick
            /\ pk' = pk + 1
            /\ writes' = <<>>
            /\ UNCHANGED <<nhl_players, nhl_draft, prospect, req, faults,
                           exit_status>>
       ELSE
            LET player_data == JrReq(outs1)
                data        == JrReq(outs2)
                check  == nhl_player_check(
                              sql_select(nhl_players, [id |-> prospect.id], selOk))
                cost   == ReqCost(outs1) + Cost(selOk) + ReqCost(outs2)
                              + Cost(cOk) + Cost(dOk)
            IN
            /\ cost <= faults
            /\ faults' = faults - cost
            /\ player_data.res.kind # "json" => pos = "Center"
            /\ IF caller_keys(player_data.res) # "ok"
               THEN /\ outs2 = Clean /\ selOk /\ cOk /\ dOk
                    /\ req' = player_data
                    /\ pc' = caller_keys(player_data.res)
                    /\ exit_status' = 1
                    /\ writes' = <<>>
                    /\ UNCHANGED <<nhl_players, nhl_draft, prospect, pk>>
               ELSE IF check = 1 /\ caller_keys(data.res) # "ok"
               THEN /\ cOk /\ dOk
                    /\ req' = data
                    /\ pc' = caller_keys(data.res)
                    /\ exit_status' = 1
                    /\ writes' = <<>>
                    /\ UNCHANGED <<nhl_players, nhl_draft, prospect, pk>>
               ELSE /\ IF check = 1
                       THEN /\ req' = data
                            /\ nhl_players' = sql_insert(nhl_players,
                                                NhlPlayerRow(prospect.id), cOk)
                            /\ writes' = <<Write("nhl_players", "INSERT", cOk),
                                           Write("nhl_draft", "INSERT", dOk)>>
                       ELSE /\ outs2 = Clean /\ cOk
                            /\ req' = player_data
                            /\ UNCHANGED nhl_players
                            /\ writes' = <<Write("nhl_draft", "INSERT", dOk)>>
                    /\ nhl_draft' = sql_insert(nhl_draft,
                            DraftRow(prospect.id, picks[pk].pickOverall), dOk)
                    /\ prospect' = [id |-> prospect.id,
                                    position |-> IF player_data.res.kind = "json"
                                                 THEN pos ELSE "NULL"]
                    /\ pc' = "jr_fetch"
                    /\ UNCHANGED <<exit_status, pk>>
    /\ seqchk' = NoCheck
    /\ lookup' = NoLookup
    /\ UNCHANGED <<junior_skater_stats, junior_goalie_stats, season_data, si,
                   picks, served, runs, skip_prospect, fi, fj, previous_pick>>
    /\ UNCHANGED rerun
    /\ UNCHANGED nhlVars

JrDraftStep ==
    \E outs1 \in Requests, outs2 \in Requests, pos \in JrPositions,
       selOk \in Flags, cOk \in Flags, dOk \in Flags :
        JrDraftPass(outs1, outs2, pos, selOk, cOk, dOk)

\* __main__: request the year-by-year payload of the prospect and take its
\* splits.  The body of a non-200 answer holds no `stats`: the loop then
\* walks the keys of that body, and dies on the first one if there is any.
JrSeasonsFetch ==
    /\ pc = "jr_fetch"
    /\ \E outs \in Requests, body \in JrPayloads, empty \in BOOLEAN :
        LET r == [prog |-> "jr", outs |-> outs, res |-> jr_request_data(outs)]
        IN
        /\ Request(outs)
        /\ req' = r
        /\ faults' = faults - ReqCost(outs)
        /\ Len(body) <= served
        /\ served' = served - Len(body)
        /\ IF r.res.kind = "json"
           THEN /\ empty
                /\ season_data' = body
                /\ si' = 1
                /\ pc' = IF body = <<>> THEN AfterPick ELSE "jr_seasons"
                /\ pk' = IF body = <<>> THEN pk + 1 ELSE pk
                /\ UNCHANGED exit_status
           ELSE IF r.res.kind = "badjson" /\ empty
           THEN /\ body = <<>>
                /\ pc' = AfterPick
                /\ pk' = pk + 1
                /\ UNCHANGED <<season_data, si, exit_status>>
           ELSE /\ body = <<>>
                /\ (r.res.kind = "badjson") \/ empty
                /\ pc' = IF r.res.kind = "exit" THEN "exited" ELSE "crashed"
                /\ exit_status' = 1
                /\ UNCHANGED <<season_data, si, pk>>
    /\ seqchk' = NoCheck
    /\ writes' = <<>>
    /\ UNCHANGED <<junior_skater_stats, junior_goalie_stats, prospect, runs,
                   picks, nhl_players, nhl_draft,
                   skip_prospect, fi, fj, previous_pick, lookup>>
    /\ rerun' = IF rerun.track /\ pc' \notin {"crashed", "exited"}
                THEN [rerun EXCEPT !.inputs = Append(@, Given(prospect, season_data'))]
                ELSE rerun
    /\ UNCHANGED nhlVars

\* __main__: one pass of the loop over the splits of the prospect.
JrSeasonPass(s1, s2, wOk) ==
    /\ pc = "jr_seasons"
    /\ si <= Len(season_data)
    /\
        LET season == season_data[si]
            league == season.league
            year   == season.season
            chk    == sequence_check(prospect.id, year, season.sequenceNumber, s1, s2)
            row    == JrRow(prospect.id, year, league, chk.seq)
            last   == ~(si < Len(season_data))
            next   == IF last THEN AfterPick ELSE "jr_seasons"
            nextpk == IF last THEN pk + 1 ELSE pk
            \* the loop variables are dead once the loop is left
            rest   == IF last THEN <<>> ELSE season_data
            nextsi == IF last THEN 1 ELSE si + 1
        IN
        IF league \notin junior_leagues
        THEN \* not a junior league we look at: continue
             /\ s1 /\ s2 /\ wOk
             /\ pc' = next /\ si' = nextsi /\ pk' = nextpk
             /\ season_data' = rest
             /\ seqchk' = NoCheck
             /\ writes' = <<>>
             /\ UNCHANGED <<junior_skater_stats, junior_goalie_stats,
                            exit_status, faults>>
        ELSE IF chk.tag = "TypeError"
        THEN /\ wOk
             /\ Cost(s1) + Cost(s2) <= faults
             /\ faults' = faults - (Cost(s1) + Cost(s2))
             /\ pc' = "crashed" /\ exit_status' = 1
             /\ seqchk' = NoCheck
             /\ writes' = <<>>
             /\ UNCHANGED <<junior_skater_stats, junior_goalie_stats, si, pk,
                            season_data>>
        ELSE /\ Cost(wOk) <= faults
             /\ faults' = faults - Cost(wOk)
             /\ seqchk' = [called |-> TRUE, id |-> prospect.id, season |-> year,
                           seq |-> season.sequenceNumber, ret |-> chk.seq,
                           used |-> JrRows(prospect.id, year, chk.seq),
                           free |-> {v \in 1..(MaxJrSeq + 2 * MaxJrSeasons + 1) :
                                        JrRows(prospect.id, year, v) = 0}]
             /\ IF prospect.position # "Goalie"
                THEN /\ junior_skater_stats' = sql_insert(junior_skater_stats, row, wOk)
                     /\ writes' = <<Write("junior_skater_stats", "INSERT", wOk)>>
                     /\ UNCHANGED junior_goalie_stats
                ELSE /\ junior_goalie_stats' = sql_insert(junior_goalie_stats, row, wOk)
                     /\ writes' = <<Write("junior_goalie_stats", "INSERT", wOk)>>
                     /\ UNCHANGED junior_skater_stats
             /\ pc' = next /\ si' = nextsi /\ pk' = nextpk
             /\ season_data' = rest
             /\ UNCHANGED exit_status
    /\ UNCHANGED <<prospect, req, runs, picks, served,
                   nhl_players, nhl_draft, skip_prospect, fi,
                   fj, previous_pick, lookup>>
    /\ UNCHANGED rerun
    /\ UNCHANGED nhlVars

JrSeasonStep ==
    \E s1 \in Flags, s2 \in Flags, wOk \in Flags : JrSeasonPass(s1, s2, wOk)

\* __main__: close the database connection; the script ends normally.
JrFinish ==
    /\ pc = "jr_close"
    /\ pc' = "done"
    /\ exit_status' = 0
    /\ seqchk' = NoCheck
    /\ writes' = <<>>
    /\ UNCHANGED <<junior_skater_stats, junior_goalie_stats, prospect,
                   season_data, si, req, faults, runs, picks, served>>
    /\ UNCHANGED draftVars
    /\ rerun' = IF ~rerun.track THEN rerun
                ELSE IF rerun.n = 0
                THEN [rerun EXCEPT !.n = 1, !.first = Left(rerun.inputs)]
                ELSE [rerun EXCEPT !.n = @ + 1]
    /\ UNCHANGED nhlVars

(***************************************************************************)
(* Specifications                                                          *)
(***************************************************************************)

vars == <<script, config, teams, players, team_players, skater_season_stats,
          goalie_season_stats, pc, exit_status, team_list, ti, player_list,
          pi, nhl_years, yi, club, splits, position, req, recon, writes, ups,
          faults, runs, stints, junior_skater_stats, junior_goalie_stats, prospect,
          season_data, si, seqchk, nhl_players, nhl_draft, picks, pk,
          skip_prospect, fi, fj, previous_pick, lookup, served, rerun,
          team_active>>

\* no stint of the players `ids` is on record
NoStints(ids) ==
    /\ club = [p \in ids |-> 0]
    /\ splits = [p \in ids |-> <<>>]

\* the state before any run, with its budgets left open
Start ==
    /\ teams = EmptyBag /\ players = EmptyBag /\ team_players = EmptyBag
    /\ skater_season_stats = EmptyBag /\ goalie_season_stats = EmptyBag
    /\ pc = "idle" /\ exit_status = 0
    /\ team_list = <<>> /\ ti = 1
    /\ player_list = <<>> /\ pi = 1
    /\ nhl_years = <<>> /\ yi = 1
    /\ req = NoRequest
    /\ recon = <<>>
    /\ writes = <<>>
    /\ ups = {}
    /\ junior_skater_stats = EmptyBag /\ junior_goalie_stats = EmptyBag
    /\ prospect = NoProspect
    /\ season_data = <<>> /\ si = 1
    /\ seqchk = NoCheck
    /\ nhl_players = EmptyBag /\ nhl_draft = EmptyBag
    /\ pk = 1 /\ skip_prospect = FALSE
    /\ fi = 1 /\ fj = 1 /\ previous_pick = NoRow /\ lookup = NoLookup
    /\ team_active = [t \in 1..NTeams |-> TRUE]

\* the juniors script is not run
NoDraft == picks = <<>> /\ served = 0 /\ rerun = NoRerun

InitNhl ==
    /\ Start
    /\ NoStints({1})
    /\ NoDraft
    /\ script = "nhl"
    /\ config \in {RunAll(by) : by \in ByYear}
    /\ position \in [Players -> PositionCodes]
    /\ faults = 0
    /\ runs = MaxRuns
    /\ stints = MaxSplits

NextNhl ==
    \/ \E p \in Players : NewStint(p)
    \/ StartRun
    \/ TeamsFetch
    \/ TeamsStep
    \/ PlayersSelect
    \/ RosterFetch
    \/ PlayersStep
    \/ SkatersSelect
    \/ SkaterFetch
    \/ SkaterStep
    \/ GoaliesSelect
    \/ GoalieFetch
    \/ GoalieStep
    \/ Finish

SpecNhl == InitNhl /\ [][NextNhl]_vars

\* the same script in an environment that injects failures
InitFault ==
    /\ Start
    /\ NoStints({1})
    /\ NoDraft
    /\ config = RunAll("ALL")
    /\ script = "nhl"
    /\ position \in [Players -> PositionCodes]
    /\ faults = MaxFaults
    /\ runs = MaxFaultRuns
    /\ stints = MaxFaultSplits

SpecFault == InitFault /\ [][NextNhl]_vars

\* one run of the script for a skater and a goalie, nothing failing
MaxPairSplits == 2
MaxPairRuns == 1

InitPair ==
    /\ Start
    /\ NoStints({1, 2})
    /\ NoDraft
    /\ script = "nhl"
    /\ config \in {RunAll(by) : by \in ByYear}
    /\ position = <<"C", "G">>
    /\ faults = 0
    /\ runs = MaxPairRuns
    /\ stints = MaxPairSplits

SpecPair == InitPair /\ [][NextNhl]_vars

\* juniors_data_pull on a draft of one pick, in an environment that injects
\* failures
InitJr ==
    /\ Start
    /\ NoStints({1})
    /\ picks \in Drafts(1)
    /\ served = MaxJrServed
    /\ rerun = NoRerun
    /\ config = RunAll("ALL")
    /\ script = "jr"
    /\ position = [p \in Players |-> "C"]
    /\ faults = MaxFaults
    /\ runs = MaxJrRuns
    /\ stints = 0

\* the first pick of a draft never reaches the loop over candidate ids
NextJr ==
    \/ JrStartRun
    \/ JrDraftFetch
    \/ JrPickId
    \/ JrFallbackSelect
    \/ JrDraftStep
    \/ JrSeasonsFetch
    \/ JrSeasonStep
    \/ JrFinish

SpecJr == InitJr /\ [][NextJr]_vars

\* the juniors script on a longer draft, with fewer season payloads
MaxDraftPicks == 3
MaxDraftRuns == 1
MaxDraftFaults == 1
MaxDraftServed == 1

InitDraft ==
    /\ Start
    /\ NoStints({1})
    /\ picks \in Drafts(MaxDraftPicks)
    /\ served = MaxDraftServed
    /\ rerun = NoRerun
    /\ config = RunAll("ALL")
    /\ script = "jr"
    /\ position = [p \in Players |-> "C"]
    /\ faults = MaxDraftFaults
    /\ runs = MaxDraftRuns
    /\ stints = 0

NextDraft == NextJr \/ JrCandidate

\* the same script on a draft of up to four picks, nothing failing
MaxSixPicks == 4
MaxSixServed == 1

InitSix ==
    /\ Start
    /\ NoStints({1})
    /\ picks \in Drafts(MaxSixPicks)
    /\ served = MaxSixServed
    /\ rerun = NoRerun
    /\ config = RunAll("ALL")
    /\ script = "jr"
    /\ position = [p \in Players |-> "C"]
    /\ faults = 0
    /\ runs = 1
    /\ stints = 0

SpecSix == InitSix /\ [][NextDraft]_vars

SpecDraft == InitDraft /\ [][NextDraft]_vars

\* the juniors script run twice on a draft of one pick, nothing failing
MaxTwiceRuns == 2
MaxTwiceServed == 2

InitTwice ==
    /\ Start
    /\ NoStints({1})
    /\ picks \in Drafts(1)
    /\ served = MaxTwiceServed
    /\ rerun = [NoRerun EXCEPT !.track = TRUE]
    /\ config = RunAll("ALL")
    /\ script = "jr"
    /\ position = [p \in Players |-> "C"]
    /\ faults = 0
    /\ runs = MaxTwiceRuns
    /\ stints = 0

SpecTwice == InitTwice /\ [][NextJr]_vars

\* a split of the current season as the source gives it
Split(league, team, seq) ==
    [season |-> current_season, league |-> league, team |-> team,
     sequenceNumber |-> seq]

\* year-by-year payloads of a player on the roster of team 1: sent down and
\* called up again by the same team; traded to it with no game played yet;
\* with it in the season before only
Recalled == <<Split(NHL, 1, 1), Split(AHL, 0, 2), Split(NHL, 1, 3)>>
Traded == <<Split(NHL, 2, 1)>>
Earlier == <<[Split(NHL, 1, 1) EXCEPT !.season = previous_season]>>

MaxRecallRuns == 1
MaxRecallSplits == 1

\* nhl_data_pull when the source holds one of these payloads
InitRecall ==
    /\ Start
    /\ club = <<1>>
    /\ splits \in {<<Recalled>>, <<Traded>>, <<Earlier>>}
    /\ NoDraft
    /\ script = "nhl"
    /\ config \in {RunAll(by) : by \in ByYear}
    /\ position \in [Players -> PositionCodes]
    /\ faults = 0
    /\ runs = MaxRecallRuns
    /\ stints = MaxRecallSplits

SpecRecall == InitRecall /\ [][NextNhl]_vars

MaxLeagueRuns == 2
MaxLeagueSplits == 1

\* nhl_data_pull run again after the source changed what it says of a team
InitLeague ==
    /\ Start
    /\ NoStints({1})
    /\ NoDraft
    /\ script = "nhl"
    /\ config \in {RunAll(by) : by \in ByYear}
    /\ position \in [Players -> PositionCodes]
    /\ faults = 0
    /\ runs = MaxLeagueRuns
    /\ stints = MaxLeagueSplits

NextLeague == NextNhl \/ \E t \in 1..NTeams : TeamFolds(t)

SpecLeague == InitLeague /\ [][NextLeague]_vars

MaxConfigRuns == 2
MaxConfigSplits == 2

\* nhl_data_pull under every configuration of its pulls
InitConfig ==
    /\ Start
    /\ NoStints({1})
    /\ NoDraft
    /\ script = "nhl"
    /\ config \in Config
    /\ position \in [Players -> PositionCodes]
    /\ faults = 0
    /\ runs = MaxConfigRuns
    /\ stints = MaxConfigSplits

SpecConfig == InitConfig /\ [][NextNhl]_vars

\* either script, run twice, with one statement, query or request failing
MaxQueryFaults == 1
MaxQueryRuns == 2
MaxQuerySplits == 2
MaxQueryServed == 2

InitQuery ==
    /\ Start
    /\ NoStints({1})
    /\ rerun = NoRerun
    /\ config = RunAll("ALL")
    /\ faults = MaxQueryFaults
    /\ runs = MaxQueryRuns
    /\ \/ /\ script = "nhl"
          /\ picks = <<>> /\ served = 0
          /\ position \in [Players -> PositionCodes]
          /\ stints = MaxQuerySplits
       \/ /\ script = "jr"
          /\ picks \in Drafts(1) /\ served = MaxQueryServed
          /\ position = [p \in Players |-> "C"]
          /\ stints = 0

SpecQuery == InitQuery /\ [][NextNhl \/ NextJr]_vars

\* either script, with one statement, query or request failing; a script
\* that has a statement to execute executes it
MaxLiveFaults == 1
MaxLiveRuns == 2
MaxLiveSplits == 2
MaxLivePicks == 2
MaxLiveServed == 1

InitLive ==
    /\ Start
    /\ NoStints({1})
    /\ rerun = NoRerun
    /\ config = RunAll("ALL")
    /\ faults = MaxLiveFaults
    /\ \/ /\ script = "nhl"
          /\ picks = <<>> /\ served = 0
          /\ position \in [Players -> PositionCodes]
          /\ runs = MaxLiveRuns
          /\ stints = MaxLiveSplits
       \/ /\ script = "jr"
          /\ picks \in Drafts(MaxLivePicks) /\ served = MaxLiveServed
          /\ position = [p \in Players |-> "C"]
          /\ runs = 1
          /\ stints = 0

\* the steps of a run under way
RunSteps ==
    \/ TeamsFetch \/ TeamsStep
    \/ PlayersSelect \/ RosterFetch \/ PlayersStep
    \/ SkatersSelect \/ SkaterFetch \/ SkaterStep
    \/ GoaliesSelect \/ GoalieFetch \/ GoalieStep
    \/ Finish
    \/ JrDraftFetch \/ JrPickId \/ JrFallbackSelect \/ JrCandidate
    \/ JrDraftStep \/ JrSeasonsFetch \/ JrSeasonStep
    \/ JrFinish

SpecLive ==
    InitLive /\ [][NextNhl \/ NextDraft]_vars /\ WF_vars(RunSteps)

\* either script, in an environment that injects failures
SpecBoth == (InitFault \/ InitJr) /\ [][NextNhl \/ NextJr]_vars

\* request_data alone, against every sequence of answers
InitReq ==
    /\ Start
    /\ NoStints({1})
    /\ NoDraft
    /\ config = RunAll("ALL")
    /\ script = "nhl"
    /\ position = [p \in Players |-> "C"]
    /\ faults = 0 /\ runs = 0 /\ stints = 0

NextReq ==
    \/ ReqNhl /\ UNCHANGED <<pc, exit_status, faults, runs, writes>>
              /\ UNCHANGED nhlVars /\ UNCHANGED jrVars
    \/ ReqJr /\ UNCHANGED <<pc, exit_status, faults, runs, writes>>
             /\ UNCHANGED nhlVars /\ UNCHANGED jrVars

SpecReq == InitReq /\ [][NextReq]_vars

(***************************************************************************)
(* Properties of request_data                                              *)
(***************************************************************************)

TimeoutTwiceThenOk == <<"timeout", "timeout", "ok">>

\* C8: a call of request_data whose first two attempts time out and whose
\* third attempt is answered 200 returns the parsed payload of the third
\* attempt and has logged exactly two retry messages, in both scripts.
C8_TwoTimeoutsThenPayload ==
    (req.prog # "none" /\ req.outs = TimeoutTwiceThenOk)
        => /\ req.res.kind = "json"
           /\ req.res.of = 3
           /\ req.res.retryLogs = 2

AllTimedOut(r) ==
    /\ r.prog # "none"
    /\ \A k \in 1..MaxTries : r.outs[k] = "timeout"

Tables == <<teams, players, team_players, skater_season_stats,
            goalie_season_stats, junior_skater_stats, junior_goalie_stats,
            nhl_players, nhl_draft>>

\* a request whose every attempt timed out has ended the run, status nonzero
C9_State ==
    AllTimedOut(req) => (pc = "crashed" /\ exit_status # 0)

\* after it nothing is requested or written until another run starts
C9_Step ==
    (AllTimedOut(req) /\ pc = "crashed")
        => /\ UNCHANGED Tables
           /\ req' = NoRequest
           /\ pc' \in {"idle", "teams_fetch", "players_select", "skaters_select",
                    "goalies_select", "closing", "jr_draft", "exited"}

\* C9: when every attempt of a request_data call times out, the run ends
\* with a nonzero exit status, and no record is fetched or written after the
\* exhausted request.
C9_ExhaustedRequestEndsRun == []C9_State /\ [][C9_Step]_vars

\* a run of nhl_data_pull died of a request that timed out three times,
\* after it had written teams
C9_Witness ==
    /\ AllTimedOut(req) /\ req.prog = "nhl" /\ req.res.tries = MaxTries
    /\ pc = "crashed" /\ exit_status = 1
    /\ teams # EmptyBag

\* the attempts that request_data made were answered, one of them not 200
NonOkAnswered(r) ==
    /\ r.prog # "none"
    /\ \E k \in 1..MaxTries : r.outs[k] = "bad"
    /\ \A k \in 1..MaxTries : r.outs[k] \in {"ok", "bad"}

BadsThenOk(outs, k) ==
    /\ outs[k] = "ok"
    /\ \A j \in 1..(k - 1) : outs[j] = "bad"

AllBad(outs) == \A k \in 1..MaxTries : outs[k] = "bad"

C10_State ==
    /\ \A k \in 2..MaxTries :
          (req.prog # "none" /\ BadsThenOk(req.outs, k))
              => (req.res.kind = "json" /\ req.res.of = k)
    /\ (req.prog = "nhl" /\ AllBad(req.outs))
          => /\ req.res.kind = "None"
             /\ pc = "crashed" /\ exit_status # 0
    /\ (req.prog = "jr" /\ AllBad(req.outs))
          => (req.res.kind = "badjson" /\ req.res.of = MaxTries)

C10_Step ==
    (req.prog = "nhl" /\ AllBad(req.outs) /\ pc = "crashed")
        => /\ UNCHANGED Tables
           /\ req' = NoRequest

TableOf(tbl) ==
    CASE tbl = "teams"               -> teams
      [] tbl = "players"             -> players
      [] tbl = "team_players"        -> team_players
      [] tbl = "skater_season_stats" -> skater_season_stats
      [] tbl = "goalie_season_stats" -> goalie_season_stats
      [] tbl = "junior_skater_stats" -> junior_skater_stats
      [] tbl = "junior_goalie_stats" -> junior_goalie_stats
      [] tbl = "nhl_players"         -> nhl_players
      [] tbl = "nhl_draft"           -> nhl_draft

\* the rows of table tbl that carry the natural key `key`
KeyRows(tbl, key) ==
    IF tbl \in {"teams", "players"}
    THEN RowsWhere(TableOf(tbl), [id |-> key[1]])
    ELSE RowsWhere(TableOf(tbl),
                   [player_id |-> key[1], team_id |-> key[2],
                    season |-> key[3], sequence |-> key[4]])

\* C1: an upsert performed twice with the same natural key and the same
\* field values, with no write failure, leaves exactly one row for the key.
C1_TwiceLeavesOneRow ==
    \A u \in ups : u.nw >= 2 => KeyRows(u.tbl, u.key) = 1

\* C4: every row of skater_season_stats or goalie_season_stats has a
\* team_players row with the same (player_id, team_id, season, sequence),
\* whether the insert of _team_players_check succeeded or failed.
C4_StatsRowHasTeamPlayer ==
    \A r \in BagToSet(skater_season_stats) \cup BagToSet(goalie_season_stats) :
        KeyRows("team_players",
                <<r.player_id, r.team_id, r.season, r.sequence>>) >= 1

\* the player has had three stints in the current season, with three teams
ThreeStints(p) ==
    /\ Len(splits[p]) = 3
    /\ \A k \in 1..3 : /\ splits[p][k].season = current_season
                       /\ splits[p][k].league = NHL
                       /\ splits[p][k].team = k

\* C5: once the roster pull and the stats pull have run for a player with
\* three stints in the current season, in any number of runs, the
\* team_players row of the last stint is active and the other two are not.
C5_OnlyLastStintActive ==
    \A p \in Players :
        (pc = "done" /\ ThreeStints(p))
            => \A r \in BagToSet(team_players) :
                  (r.player_id = p /\ r.season = current_season)
                      => (r.active <=> r.team_id = splits[p][3].team)

\* the payload of the player holds two splits of the current season, for
\* team 1 and team 2, that both report sequence 1
SameSequence(p) ==
    splits[p] = <<[season |-> current_season, league |-> NHL, team |-> 1,
                   sequenceNumber |-> 1],
                  [season |-> current_season, league |-> NHL, team |-> 2,
                   sequenceNumber |-> 1]>>

StatsName(p) ==
    IF position[p] = "G" THEN "goalie_season_stats" ELSE "skater_season_stats"

C7_OneWritePerStep ==
    \A k \in 1..Len(recon) :
        /\ Len(recon[k].stmts) = 1
        /\ (recon[k].stmts[1] = "UPDATE") <=> recon[k].existed
        /\ (recon[k].stmts[1] = "INSERT") <=> ~recon[k].existed

(***************************************************************************)
(* Properties of the junior seasons loop                                   *)
(***************************************************************************)

\* sequence numbers a junior stats row may carry in the model
JrSequences == 1..(MaxJrSeq + 2 * MaxJrSeasons)

\* C2: no two junior stats rows of the same player and season, in both
\* tables taken together, carry the same sequence number.
C2_JuniorSequenceUnique ==
    \A id \in Prospects, season \in JrSeasons, v \in JrSequences :
        JrRows(id, season, v) <= 1

\* C3: _sequence_check returns a value for which no stats row of the player
\* and season exists: the candidate, or the first unused value above it.
C3_ReturnsUnusedSequence ==
    seqchk.called
        => /\ seqchk.used = 0
           /\ seqchk.ret \in seqchk.free
           /\ \A v \in seqchk.free : v >= seqchk.seq => seqchk.ret <= v

(***************************************************************************)
(* Properties of failed writes                                             *)
(***************************************************************************)

TableNames ==
    {"teams", "players", "team_players", "skater_season_stats",
     "goalie_season_stats", "junior_skater_stats", "junior_goalie_stats",
     "nhl_players", "nhl_draft"}

FailedWrites == {k \in 1..Len(writes) : ~writes[k].ok}

C12_Step ==
    \A t \in TableNames :
        (\A k \in 1..Len(writes') : writes'[k].tbl = t => ~writes'[k].ok)
            => TableOf(t)' = TableOf(t)

\* C12: a failed write leaves the database as it was before the attempt:
\* the attempted row is not persisted and no committed row changes.
C12_FailedWriteChangesNothing == [][C12_Step]_vars

\* the players write of a roster entry failed, its team_players write was
\* committed, and rows of earlier records are there
C12_Witness ==
    /\ Len(writes) = 2
    /\ ~writes[1].ok /\ writes[2].ok
    /\ writes[1].tbl = "players" /\ players = EmptyBag
    /\ teams # EmptyBag

(***************************************************************************)
(* Properties of the stats pulls                                           *)
(***************************************************************************)

\* the flag a pass of the stats loop has computed for the split it handled
C17_Step ==
    (pc \in {"skater", "goalie"} /\ pc' # "crashed")
        => LET year == nhl_years[yi]
               key  == <<player_list[pi], year.team, year.season,
                         year.sequenceNumber>>
           IN  \E u \in ups' :
                  /\ u.tbl = "team_players" /\ u.key = key
                  /\ u.fields.active
                        <=> (yi = Len(nhl_years) /\ year.season = current_season)

\* C17: the active flag the stats pulls compute for a split is true exactly
\* when the split is the last NHL split of the payload and its season is
\* the current season; every earlier split gets active = false.
C17_ActiveOnlyLastCurrentSplit == [][C17_Step]_vars

\* the skater pull has handled the first of two splits of the current season
C17_Witness ==
    /\ pc = "skater" /\ yi = 2 /\ Len(nhl_years) = 2
    /\ nhl_years[1].season = current_season
    /\ \E u \in ups :
          /\ u.tbl = "team_players"
          /\ u.key = <<player_list[pi], nhl_years[1].team, current_season,
                       nhl_years[1].sequenceNumber>>
          /\ ~u.fields.active

\* C18: a call of request_data issues at least one and at most three HTTP
\* requests, whatever the answers are, in both scripts.
C18_AtMostThreeRequests ==
    req.prog # "none" => req.res.tries \in 1..3

\* three requests were made, none answered 200, and the call ended
C18_Witness ==
    /\ req.prog = "nhl"
    /\ req.outs = <<"bad", "timeout", "bad">>
    /\ req.res.tries = 3 /\ req.res.kind = "None"

\* C19: team_players holds at most one row for each
\* (player_id, team_id, season, sequence).
C19_TeamPlayersKeyUnique ==
    \A r \in BagToSet(team_players) :
        KeyRows("team_players",
                <<r.player_id, r.team_id, r.season, r.sequence>>) = 1

\* a key of team_players has been handled twice, by the roster pull or by
\* _team_players_check; the roster pull has just met a row that was there
\* and updated it, in a behaviour in which a statement or request failed
C19_Witness ==
    /\ \E u \in ups : u.tbl = "team_players" /\ u.nw >= 2
    /\ \E k \in 1..Len(recon) :
          /\ recon[k].tbl = "team_players" /\ recon[k].existed
          /\ writes[k].ok
    /\ faults < MaxFaults

(***************************************************************************)
(* Order of the writes of a run                                            *)
(***************************************************************************)

\* the pull a position of the script belongs to, in the order of __main__
PhaseRank(at) ==
    CASE at \in {"teams_fetch", "teams"}                        -> 1
      [] at \in {"players_select", "roster_fetch", "players"}   -> 2
      [] at \in {"skaters_select", "skater_fetch", "skater"}    -> 3
      [] at \in {"goalies_select", "goalie_fetch", "goalie"}    -> 4
      [] OTHER                                                  -> 5

\* the tables of the writes of a step, in the order they were executed
WrittenTables(ws) == [k \in 1..Len(ws) |-> ws[k].tbl]

\* what a step taken at position `at` may write, in order
PhaseWrites(at) ==
    CASE at = "teams"   -> {<<"teams">>}
      [] at = "players" -> {<<>>, <<"players", "team_players">>}
      [] at = "skater"  -> {<<>>, <<"skater_season_stats">>,
                            <<"team_players", "skater_season_stats">>}
      [] at = "goalie"  -> {<<>>, <<"goalie_season_stats">>,
                            <<"team_players", "goalie_season_stats">>}
      [] OTHER          -> {<<>>}

C20_Step ==
    /\ WrittenTables(writes') \in PhaseWrites(pc)
    /\ (pc \notin {"idle", "done", "crashed", "exited"})
          => PhaseRank(pc') >= PhaseRank(pc)

\* C20: within a run the teams writes precede the players and team_players
\* writes of the roster pull, which precede the skater stats writes, which
\* precede the goalie stats writes; for each split the team_players insert
\* of the check precedes the stats write.
C20_WritesInPhaseOrder == [][C20_Step]_vars

\* in one run, teams, a skater's rows and then a goalie's rows were written,
\* the last split with a team_players insert before its stats write
C20_Witness ==
    /\ teams # EmptyBag /\ players # EmptyBag
    /\ skater_season_stats # EmptyBag
    /\ WrittenTables(writes) = <<"team_players", "goalie_season_stats">>
    /\ writes[1].ok /\ writes[2].ok

(***************************************************************************)
(* Rows that reference a player                                            *)
(***************************************************************************)

\* C14: every team_players, skater_season_stats or goalie_season_stats row
\* has a players row with the same player_id, also when the players insert
\* of the roster pull fails and when the stats pull takes its player ids
\* from the configured list.
C14_PlayerRowExists ==
    \A r \in BagToSet(team_players) \cup BagToSet(skater_season_stats)
             \cup BagToSet(goalie_season_stats) :
        KeyRows("players", <<r.player_id>>) >= 1

(***************************************************************************)
(* Exit status                                                             *)
(***************************************************************************)

\* C16: the process ends with status zero only on normal completion; a run
\* that ended on a failed database connection, on a request exception or on
\* an uncaught error has a nonzero exit status.
C16_ZeroOnlyOnCompletion ==
    pc \in {"exited", "crashed"} => exit_status # 0

(***************************************************************************)
(* Properties of the draft picks                                           *)
(***************************************************************************)

\* C13: every nhl_draft row has an nhl_players row with its nhl_player_id,
\* whatever _nhl_player_check and _nhl_player_create met (a failed
\* existence query and a failed creation insert included).
C13_DraftRowHasPlayer ==
    \A r \in BagToSet(nhl_draft) :
        RowsWhere(nhl_players, [id |-> r.nhl_player_id]) >= 1

\* the search for the id of a pick is over and has found none: neither the
\* profile of the pick nor a compared candidate profile gave one
Unresolved ==
    /\ pc = "jr_profile"
    /\ lookup.direct = NULL
    /\ ~lookup.matched

\* a pick without an id is flagged, the first pick of the draft included
C15_State == Unresolved => skip_prospect

\* the search writes nothing; a flagged pick is left without a write and the
\* script turns to the next pick (or closes after the last one)
C15_Step ==
    /\ pc \in {"jr_pick", "jr_fallback", "jr_candidate"}
          => (UNCHANGED Tables /\ writes' = <<>>)
    /\ (pc = "jr_profile" /\ skip_prospect)
          => /\ UNCHANGED Tables
             /\ writes' = <<>>
             /\ pk' = pk + 1
             /\ pc' = IF pk < Len(picks) THEN "jr_pick" ELSE "jr_close"

\* C15: a draft pick for which no NHL player id is found (the first overall
\* pick without a profile, or no name-matching profile among the candidate
\* ids) is skipped: no nhl_players, nhl_draft or junior stats row is written
\* for it, and the next pick is processed.
C15_UnresolvedPickSkipped == []C15_State /\ [][C15_Step]_vars

\* the first pick was stored, the second had no profile and no candidate
\* derived from the first matched its name: it was skipped, and the third
\* pick is next
C15_Witness ==
    /\ pc = "jr_pick" /\ pk = 3
    /\ skip_prospect
    /\ prospect.id # NULL
    /\ RowsWhere(nhl_draft, DraftKey(1)) = 1
    /\ RowsWhere(nhl_draft, DraftKey(2)) = 0

(***************************************************************************)
(* Properties of _sequence_check                                           *)
(***************************************************************************)

\* the candidate of the recorded call was carried by a row of either table
CandidateTaken == seqchk.seq \notin seqchk.free

JrRowCount ==
    BagCardinality(junior_skater_stats) + BagCardinality(junior_goalie_stats)

C21_State ==
    seqchk.called
        => seqchk.ret = IF CandidateTaken THEN seqchk.seq + 1 ELSE seqchk.seq

\* the pass of the loop that called it executed one statement, the INSERT of
\* its caller, and the tables hold at most that one row more
C21_Step ==
    seqchk'.called
        => /\ Len(writes') = 1
           /\ writes'[1].stmt = "INSERT"
           /\ writes'[1].tbl \in {"junior_skater_stats", "junior_goalie_stats"}
           /\ JrRowCount' = JrRowCount + (IF writes'[1].ok THEN 1 ELSE 0)
           /\ UNCHANGED <<nhl_players, nhl_draft>>

\* C21: _sequence_check returns seq + 1 when a row with (player_id, season,
\* seq) exists in junior_skater_stats or junior_goalie_stats and seq when
\* neither table has one; it writes nothing.
C21_SequenceCheckResult == []C21_State /\ [][C21_Step]_vars

\* a call whose candidate was taken and that returned the next number
C21_Witness ==
    /\ seqchk.called
    /\ CandidateTaken
    /\ seqchk.ret = seqchk.seq + 1

(***************************************************************************)
(* Running the juniors pull again                                          *)
(***************************************************************************)

\* a second run has ended that was given what the first run was given
RanTwiceOnSame ==
    /\ rerun.track /\ rerun.n = 2 /\ pc = "done"
    /\ rerun.inputs = rerun.first.inputs

\* C22: running the juniors pull twice over the same draft payload leaves
\* the same nhl_draft rows and the same junior stats rows as running it
\* once: nothing is stored a second time, under a new sequence number or
\* otherwise.
C22_SecondRunAddsNothing ==
    RanTwiceOnSame
        => /\ nhl_draft = rerun.first.nhl_draft
           /\ junior_skater_stats = rerun.first.junior_skater_stats
           /\ junior_goalie_stats = rerun.first.junior_goalie_stats

(***************************************************************************)
(* Properties of _team_players_check                                       *)
(***************************************************************************)

\* a pass of the stats loop is about to handle, or has handled, a split
InStatsLoop == pc \in {"skater", "goalie"} /\ yi <= Len(nhl_years)

\* the arguments the pass of the stats loop gives _team_players_check
CheckKey ==
    TeamPlayerKey(player_list[pi], nhl_years[yi].team, nhl_years[yi].season,
                  nhl_years[yi].sequenceNumber)
CheckRow ==
    TeamPlayerRow(player_list[pi], nhl_years[yi].team, nhl_years[yi].season,
                  split_active(yi - 1, Len(nhl_years), nhl_years[yi].season),
                  nhl_years[yi].sequenceNumber)
CheckExists == RowsWhere(team_players, CheckKey) > 0

\* what the call returns on the table of this state, its query answered
C23_State ==
    InStatsLoop =>
        \A wOk \in Flags :
            LET chk == team_players_check(team_players, CheckRow.player_id,
                           CheckRow.team_id, CheckRow.season, CheckRow.active,
                           CheckRow.sequence, TRUE, wOk)
            IN  IF CheckExists
                THEN chk.ret = "1" /\ chk.table = team_players
                ELSE chk.ret = "0" /\ chk.inserts = 1

\* what a pass of the stats loop that did not raise did to team_players
C23_Step ==
    (InStatsLoop /\ pc' # "crashed") =>
        IF CheckExists
        THEN /\ team_players' = team_players
             /\ \A k \in 1..Len(writes') : writes'[k].tbl # "team_players"
        ELSE /\ writes'[1] \in {Write("team_players", "INSERT", ok) : ok \in Flags}
             /\ \A k \in 2..Len(writes') : writes'[k].tbl # "team_players"
             /\ team_players' = IF writes'[1].ok
                                THEN team_players (+) SetToBag({CheckRow})
                                ELSE team_players

\* C23: _team_players_check inserts a team_players row only when no row
\* exists for (player, team, season, sequence), and then returns 0; when a
\* row exists it returns 1 and leaves that row, its active flag included,
\* as it is.
C23_TeamPlayersCheckFrame == []C23_State /\ [][C23_Step]_vars

\* a pass of the skater loop has met the team_players row of its split,
\* stored with another active flag than the one the pass computed, and
\* that row is still as it was
C23_Witness ==
    /\ pc = "skater" /\ yi >= 2 /\ yi <= Len(nhl_years)
    /\ Len(writes) = 1 /\ writes[1].tbl = "skater_season_stats"
    /\ LET year == nhl_years[yi - 1]
       IN  \E r \in BagToSet(team_players) :
              /\ Matches(r, TeamPlayerKey(player_list[pi], year.team,
                                          year.season, year.sequenceNumber))
              /\ r.active # split_active(yi - 2, Len(nhl_years), year.season)

(***************************************************************************)
(* Properties of _get_player_sequence                                      *)
(***************************************************************************)

\* the places, in the payload of the roster entry at hand, of the splits of
\* the current season that are NHL splits with the roster team
RosterSplits ==
    LET years == splits[player_list[pi]]
    IN  {k \in 1..Len(years) :
            /\ years[k].season = current_season
            /\ years[k].league = NHL
            /\ TeamName(years[k].team) = team_list[ti][2]}

LastOf(S) == CHOOSE k \in S : \A m \in S : m <= k

\* a pass of the roster loop that did not raise
C24_Step ==
    (pc = "players" /\ pi <= Len(player_list) /\ pc' # "crashed") =>
        IF RosterSplits = {}
        THEN /\ writes' = <<>>
             /\ UNCHANGED <<players, team_players>>
             /\ pc' \in {"players", "roster_fetch", "skaters_select",
                      "goalies_select", "closing"}
             /\ pc' = "players" => pi' = pi + 1
        ELSE /\ Len(recon') = 2 /\ Len(writes') = 2
             /\ recon'[2].tbl = "team_players"
             /\ recon'[2].key[4]
                   = splits[player_list[pi]][LastOf(RosterSplits)].sequenceNumber

\* C24: when the year-by-year payload of a roster player holds no split of
\* the current season that is an NHL split with the roster team,
\* _get_player_sequence returns None and _players writes neither a players
\* row nor a team_players row for the player and goes on to the next roster
\* entry; otherwise the sequence is the sequenceNumber of the last such
\* split of the payload.
C24_SequenceOfLastRosterSplit == [][C24_Step]_vars

\* the roster pull has handled a player whose payload holds two splits with
\* the roster team, and took the sequence number of the second
C24_Witness ==
    /\ splits[1] = Recalled
    /\ Len(recon) = 2 /\ recon[2].tbl = "team_players"
    /\ recon[2].key = <<1, 1, current_season, 3>>

(***************************************************************************)
(* Leagues of the stored splits                                            *)
(***************************************************************************)

\* the payload of the player of row r holds an NHL split with the team,
\* season and sequence number of r
OfNhlSplit(r) ==
    \E k \in 1..Len(splits[r.player_id]) :
        LET y == splits[r.player_id][k]
        IN  /\ y.league = NHL
            /\ y.team = r.team_id /\ y.season = r.season
            /\ y.sequenceNumber = r.sequence

C25_State ==
    /\ \A r \in BagToSet(skater_season_stats) \cup BagToSet(goalie_season_stats)
                \cup BagToSet(team_players) : OfNhlSplit(r)
    /\ \A r \in BagToSet(junior_skater_stats) \cup BagToSet(junior_goalie_stats) :
          r.league \in junior_leagues

\* a pass of the loop over the splits of a prospect that did not raise
C25_Step ==
    (pc = "jr_seasons" /\ si <= Len(season_data) /\ pc' # "crashed") =>
        IF season_data[si].league \in junior_leagues
        THEN IF prospect.position = "Goalie"
             THEN /\ writes' \in {<<Write("junior_goalie_stats", "INSERT", ok)>> :
                                     ok \in Flags}
                  /\ UNCHANGED junior_skater_stats
             ELSE /\ writes' \in {<<Write("junior_skater_stats", "INSERT", ok)>> :
                                     ok \in Flags}
                  /\ UNCHANGED junior_goalie_stats
        ELSE /\ writes' = <<>>
             /\ UNCHANGED <<junior_skater_stats, junior_goalie_stats>>

\* C25: only splits of an eligible league are stored: a season stats row
\* or team_players row of nhl_data_pull is that of an NHL split of the
\* player's payload, a junior stats row is that of a split whose league is
\* in the configured list, and such a split goes to junior_goalie_stats
\* when the position is Goalie and to junior_skater_stats otherwise, never
\* to both.
C25_OnlyEligibleLeagues == []C25_State /\ [][C25_Step]_vars

\* the juniors pull has stored the OHL split of a goalie and is about to
\* pass over a KHL split
C25_Witness ==
    /\ pc = "jr_seasons" /\ si = 2 /\ Len(season_data) = 2
    /\ season_data[1].league = "OHL" /\ season_data[2].league = "KHL"
    /\ prospect.position = "Goalie"
    /\ writes = <<Write("junior_goalie_stats", "INSERT", TRUE)>>
    /\ junior_goalie_stats # EmptyBag /\ junior_skater_stats = EmptyBag

(***************************************************************************)
(* The pulls the configuration selects                                     *)
(***************************************************************************)

\* a step leaves table `t` alone and issues no statement on it
Untouched(t) ==
    /\ TableOf(t)' = TableOf(t)
    /\ \A k \in 1..Len(writes') : writes'[k].tbl # t

C26_Step ==
    /\ config.teams_list = "NONE" => Untouched("teams")
    /\ config.players_list = "NONE" => Untouched("players")
    /\ config.stats_list = "SKATERS" => Untouched("goalie_season_stats")
    /\ config.stats_list = "GOALIES" => Untouched("skater_season_stats")
    /\ config.stats_list \notin {"ALL", "SKATERS", "GOALIES"}
          => Untouched("skater_season_stats") /\ Untouched("goalie_season_stats")

\* C26: the configuration selects the pulls that write: with TEAMS LIST =
\* NONE no teams row is written, with PLAYERS LIST = NONE no players row,
\* with STATS LIST = SKATERS no goalie_season_stats row, with GOALIES no
\* skater_season_stats row, and with any other value than ALL, SKATERS and
\* GOALIES no row of either stats table.
C26_ConfigSelectsPulls == [][C26_Step]_vars

\* a run with TEAMS LIST = NONE, PLAYERS LIST = NONE and STATS LIST =
\* GOALIES has ended: it stored the season of a goalie named in the
\* configuration file and nothing in teams, players or skater_season_stats
C26_Witness ==
    /\ pc = "done"
    /\ config.teams_list = "NONE" /\ config.players_list = "NONE"
    /\ config.stats_list = "GOALIES"
    /\ goalie_season_stats # EmptyBag
    /\ teams = EmptyBag /\ players = EmptyBag /\ skater_season_stats = EmptyBag

(***************************************************************************)
(* The row an upsert of a team leaves                                      *)
(***************************************************************************)

\* C27: after a successful upsert of a team that already had a row, the
\* stored row equals the record of the payload in all seven fields (id,
\* name, abbreviation, conference id, division id, franchise id, active),
\* as after an insert of that record.
C27_UpsertedTeamIsRecord ==
    (/\ Len(recon) = 1 /\ recon[1].tbl = "teams"
     /\ recon[1].existed /\ writes[1].ok)
        => \A r \in BagToSet(teams) :
              r.id = recon[1].key[1] => r = TeamRow(TeamPayload(r.id))

(***************************************************************************)
(* The search for the id of a pick                                         *)
(***************************************************************************)

\* the search for the id of the pick at hand has been left
FallbackLeft == pc = "jr_profile" /\ lookup.direct = NULL

C28_State ==
    /\ lookup.tried <= 6
    /\ pc = "jr_candidate" => (fi \in 1..3 /\ fj \in 1..fi)
    /\ FallbackLeft => (~skip_prospect <=> lookup.matched)

\* the candidate tried is the id of the pick fi places back plus fj, and a
\* draft row is inserted after a search only for a candidate that matched
C28_Step ==
    /\ lookup'.tried > lookup.tried
          => /\ lookup'.tried = lookup.tried + 1
             /\ \E r \in BagToSet(nhl_draft) :
                   /\ r.overall_pick = picks[pk].pickOverall - fi
                   /\ prospect'.id = r.nhl_player_id + fj
    /\ (FallbackLeft /\ \E k \in 1..Len(writes') : writes'[k].tbl = "nhl_draft")
          => lookup.matched

\* C28: when the source gives no player id for a pick, the search tries at
\* most six candidate ids (the id of the pick i places back plus j, i in
\* 1..3 and j in 1..i); the pick goes on to the draft insert only with a
\* candidate whose profile has the pick's last name and its first name or
\* the first letter of it; when the search is left skip_prospect is false
\* exactly when such a candidate was found.
C28_FallbackSearch == []C28_State /\ [][C28_Step]_vars

\* six candidates were tried for the fourth pick, the last of them matched
C28_Witness ==
    /\ FallbackLeft /\ picks[pk].pickOverall = 4
    /\ lookup.tried = 6 /\ lookup.matched /\ ~skip_prospect

(***************************************************************************)
(* A failed existence query                                                *)
(***************************************************************************)

\* no statement of the step is an INSERT into table t, and t is as it was
NoInsert(t) ==
    /\ \A k \in 1..Len(writes') :
          writes'[k].tbl = t => writes'[k].stmt # "INSERT"
    /\ BagCardinality(TableOf(t))' = BagCardinality(TableOf(t))

\* the passes of the loops whose existence query failed
C29_Step ==
    /\ pc = "teams" =>
          \A wOk \in BOOLEAN :
              TeamsPass(FALSE, wOk) => writes' = <<Write("teams", "UPDATE", wOk)>>
    /\ pc = "players" =>
          \A s1, s2 \in BOOLEAN :
              ~(s1 /\ s2) =>
                  \A outs1, outs2 \in ReqCases, active, w1, w2 \in BOOLEAN :
                      PlayersPass(outs1, outs2, active, s1, w1, s2, w2) =>
                          /\ ~s1 => (writes'[1] = Write("players", "UPDATE", w1)
                                        /\ NoInsert("players"))
                          /\ ~s2 => (writes'[2] = Write("team_players", "UPDATE", w2)
                                        /\ NoInsert("team_players"))
    /\ \A kind \in {"skater", "goalie"} :
          pc = kind =>
              \A s1, s2 \in BOOLEAN :
                  ~(s1 /\ s2) =>
                      \A w1, w2 \in BOOLEAN :
                          StatsPass(kind, s1, w1, s2, w2) =>
                              IF ~s1
                              THEN /\ writes' = <<>> /\ UNCHANGED Tables
                                   /\ pc' = "crashed"
                              ELSE /\ writes'[Len(writes')]
                                         = Write(kind \o "_season_stats", "UPDATE", w2)
                                   /\ NoInsert(kind \o "_season_stats")
    /\ pc = "jr_profile" =>
          \A outs1, outs2 \in ReqCases, pos \in JrPositions, cOk, dOk \in BOOLEAN :
              JrDraftPass(outs1, outs2, pos, FALSE, cOk, dOk)
                  => NoInsert("nhl_players")
    /\ pc = "jr_seasons" =>
          \A s1, s2 \in BOOLEAN :
              ~(s1 /\ s2) =>
                  \A wOk \in BOOLEAN :
                      JrSeasonPass(s1, s2, wOk) =>
                          (writes' = <<>> /\ UNCHANGED Tables /\ pc' = "crashed")

Ended == pc \in {"idle", "done", "crashed", "exited"}

\* C30: for every finite payload and every pattern of request and database
\* outcomes a run of either script eventually terminates: it ends normally,
\* with an uncaught exception or with sys.exit.
C30_RunTerminates == ~Ended ~> Ended

\* a run in which a request or statement failed has ended normally after
\* the loops over rosters and splits, or over picks and candidate ids
C30_Witness ==
    /\ pc = "done" /\ faults < MaxLiveFaults
    /\ \/ skater_season_stats # EmptyBag
       \/ (Len(picks) = 2 /\ nhl_draft # EmptyBag /\ skip_prospect)

=============================================================================
